---- MODULE Spec2Model ----
(***************************************************************************)
(* Model of the resilient inference orchestration layer of the             *)
(* multimodal visual inspection API:                                       *)
(*   - _run_vlm_with_retries      (app/pipelines/image_pipeline.py)        *)
(*   - run_document_pipeline      (app/pipelines/document_pipeline.py)     *)
(*   - VLMDocumentAnalyzer        (app/analyzers/vlm_document_analyzer.py) *)
(*   - generate_grounded_explanation (app/explainers/grounded_explainer.py)*)
(*   - run_with_timeout           (app/analyzers/vlm_runner.py)            *)
(*   - analyze_document           (app/api/routes_document.py)             *)
(*   - RetryingLLMClient.generate (app/llm/llm_client.py)                  *)
(*   - _aggregate_fields          (app/api/routes_document.py)             *)
(* Each component has its own specification (SpecRunner, SpecTimeout,      *)
(* SpecPipeline, SpecAnalyzer, SpecBatch, SpecExplainer, SpecRoutes,       *)
(* SpecRetry, SpecFields); the variables of the other components stay idle.*)
(***************************************************************************)
EXTENDS Integers, Sequences, FiniteSets, TLC

VARIABLES
    \* ---- _run_vlm_with_retries ----
    vlm_max_retries,   \* settings.vlm_max_retries
    attempt,           \* loop variable of `for attempt in range(retries + 1)`
    vlm_input,         \* current request (VLMInput)
    last_invalid,      \* message of the last VLMInvalidOutput, "None" if none
    run_pc,            \* "idle" | "loop" | "returned" | "raised" | "blocked"
    run_out,           \* what the run delivered to its caller
    backend_log,       \* one entry per backend invocation (request and outcome)
    metrics,           \* labels recorded in VLM_REQUESTS_TOTAL, in order
    \* ---- run_document_pipeline ----
    n_pages,           \* len(inp.preprocessed.pages)
    doc_mode,          \* inp.mode
    page_i,            \* loop variable i of enumerate(pages)
    page_results,      \* page_results list
    doc_warnings,      \* warnings list
    doc_pc,            \* "idle" | "loop" | "returned" | "raised" | "blocked" | "rejected"
    doc_out,           \* what run_document_pipeline delivered
    analyzer_log,      \* one entry per analyzer.analyze_page invocation
    \* ---- VLMDocumentAnalyzer.analyze_page ----
    ap_in,             \* arguments and the client's behaviour for this call
    ap_pc,             \* "idle" | "call" | "done"
    ap_out,            \* what analyze_page delivered
    \* ---- generate_grounded_explanation ----
    ge_in,             \* facts and the text backend's behaviour for this call
    ge_pc,             \* "idle" | "call" | "done"
    ge_out,            \* what generate_grounded_explanation delivered
    llm_calls,         \* requests passed to llm.generate, in order
    \* ---- response mapping of the document route ----
    cn_in,             \* the Optional[Confidence] handed to _confidence_to_number
    cn_pc,             \* "idle" | "call" | "done"
    cn_out,            \* the number _confidence_to_number returned
    \* ---- run_with_timeout ----
    timeout_set,       \* whether settings has an attribute vlm_timeout_seconds
    vlm_timeout_seconds, \* the deadline, in ticks after the call started
    now,               \* time elapsed since start = time.perf_counter()
    thread,            \* "none" | "queued" | "running" | "finished": the worker thread
    rt_pc,             \* "idle" | "start" | "waiting" | "done"
    rt_out,            \* outcomes delivered to the caller of run_with_timeout, in order
    \* ---- POST /document with the VLM analyzer ----
    analyzer_model_name, \* VLMDocumentAnalyzer.model_name, "None" if unset
    client_log,        \* behaviour of client.analyze_image on each page, in order
    response,          \* the response analyze_document returned
    \* ---- RetryingLLMClient.generate ----
    max_attempts,      \* self._policy.max_attempts
    rl_attempt,        \* loop variable of `for attempt in range(1, max_attempts + 1)`
    last_err,          \* last_err, NoError if None
    rl_pc,             \* "idle" | "loop" | "returned" | "raised"
    rl_out,            \* what generate delivered to its caller
    inner_log,         \* one entry per call of self._inner.generate
    sleeps,            \* the attempts after which time.sleep was called, in order
    \* ---- _aggregate_fields ----
    af_in,             \* the pages handed to _aggregate_fields
    af_pc,             \* "idle" | "call" | "done"
    af_out             \* the dict _aggregate_fields returned

runner_vars == <<vlm_max_retries, attempt, vlm_input, last_invalid, run_pc, run_out,
                 backend_log, metrics>>
doc_vars == <<n_pages, doc_mode, page_i, page_results, doc_warnings, doc_pc, doc_out,
              analyzer_log>>
ap_vars == <<ap_in, ap_pc, ap_out>>
ge_vars == <<ge_in, ge_pc, ge_out, llm_calls>>
cn_vars == <<cn_in, cn_pc, cn_out>>
rt_vars == <<timeout_set, vlm_timeout_seconds, now, thread, rt_pc, rt_out>>
bt_vars == <<analyzer_model_name, client_log, response>>
rl_vars == <<max_attempts, rl_attempt, last_err, rl_pc, rl_out, inner_log, sleeps>>
af_vars == <<af_in, af_pc, af_out>>
vars == <<runner_vars, doc_vars, ap_vars, ge_vars, cn_vars, rt_vars, bt_vars, rl_vars, af_vars>>

\* ------------------------------------------------------------------------
\* Bounds of the model
\* ------------------------------------------------------------------------
MaxRetries == 2
MaxPages == 3
MaxTime == 6
MaxDeadline == 3
MaxLLMAttempts == 3
MaxAggPages == 2

\* ------------------------------------------------------------------------
\* Small helpers
\* ------------------------------------------------------------------------
Last(s) == s[Len(s)]

\* str.strip(): drop leading and trailing whitespace characters
Whitespace == {"sp", "nl"}

RECURSIVE LStrip(_)
LStrip(s) == IF s # <<>> /\ Head(s) \in Whitespace THEN LStrip(Tail(s)) ELSE s

RECURSIVE RStrip(_)
RStrip(s) ==
    IF s # <<>> /\ Last(s) \in Whitespace THEN RStrip(SubSeq(s, 1, Len(s) - 1)) ELSE s

Strip(s) == RStrip(LStrip(s))

\* ========================================================================
\* _run_vlm_with_retries
\* ========================================================================
\* Prompts are sequences of characters; "EXTRA" stands for the fixed
\* instruction text of _tighten_prompt.
extra == <<"EXTRA">>

Prompts == {<<>>, <<"a">>, <<"sp", "a", "sp">>, <<"sp">>}
Tasks == {"None", "inspect"}
Messages == {"m1", "m2"}
Results == {"r1", "r2"}

VLMInput(p, t, q) == [prompt |-> p, task |-> t, question |-> q]

\* Faulty variant of _tighten_prompt: the instruction replaces the prompt
_tighten_prompt_Replaces(v) == VLMInput(extra, v.task, v.question)

_tighten_prompt(v) ==
    LET base == Strip(v.prompt)
        new_prompt == IF base # <<>> THEN Strip(base \o <<"nl", "nl">> \o extra) ELSE extra
    IN VLMInput(new_prompt, v.task, v.question)

NoOutcome == [kind |-> "none", status_code |-> 0, code |-> "", message |-> "",
              result |-> "", attempts |-> 0]

Returned(r, n) == [kind |-> "return", status_code |-> 200, code |-> "", message |-> "",
                   result |-> r, attempts |-> n]

HTTPException(sc, c, m) == [kind |-> "raise", status_code |-> sc, code |-> c, message |-> m,
                            result |-> "", attempts |-> 0]

BackendEntry(k, m, r) == [kind |-> k, message |-> m, result |-> r, request |-> vlm_input]

RunnerIdle ==
    /\ vlm_max_retries = 0
    /\ attempt = 0
    /\ vlm_input = VLMInput(<<>>, "None", "None")
    /\ last_invalid = "None"
    /\ run_pc = "idle"
    /\ run_out = NoOutcome
    /\ backend_log = <<>>
    /\ metrics = <<>>

RunnerInit ==
    /\ vlm_max_retries \in -1..MaxRetries
    /\ attempt = 0
    /\ vlm_input \in {VLMInput(p, t, "None") : p \in Prompts, t \in Tasks}
    /\ last_invalid = "None"
    /\ run_pc = "loop"
    /\ run_out = NoOutcome
    /\ backend_log = <<>>
    /\ metrics = <<>>

InLoop == run_pc = "loop" /\ attempt < vlm_max_retries + 1

\* Faulty variant of AttemptOk: the loop index is returned as the attempts count
AttemptOk_ZeroBased ==
    /\ InLoop
    /\ \E r \in Results :
         /\ backend_log' = Append(backend_log, BackendEntry("ok", "", r))
         /\ run_out' = Returned(r, attempt)
    /\ metrics' = Append(metrics, "ok")
    /\ run_pc' = "returned"
    /\ UNCHANGED <<vlm_max_retries, attempt, vlm_input, last_invalid>>
    /\ UNCHANGED <<doc_vars, ap_vars, ge_vars, cn_vars, rt_vars, bt_vars, rl_vars, af_vars>>

\* try-branch: run_with_timeout returned a result
AttemptOk ==
    /\ InLoop
    /\ \E r \in Results :
         /\ backend_log' = Append(backend_log, BackendEntry("ok", "", r))
         /\ run_out' = Returned(r, attempt + 1)
    /\ metrics' = Append(metrics, "ok")
    /\ run_pc' = "returned"
    /\ UNCHANGED <<vlm_max_retries, attempt, vlm_input, last_invalid>>
    /\ UNCHANGED <<doc_vars, ap_vars, ge_vars, cn_vars, rt_vars, bt_vars, rl_vars, af_vars>>

\* Faulty variant of AttemptTimeout: the timeout is retried while attempts remain
AttemptTimeout_Retried ==
    /\ InLoop
    /\ \E m \in Messages :
         /\ backend_log' = Append(backend_log, BackendEntry("timeout", m, ""))
         /\ IF attempt < vlm_max_retries
               THEN /\ attempt' = attempt + 1
                    /\ UNCHANGED <<run_pc, run_out>>
               ELSE /\ run_out' = HTTPException(504, "timeout", m)
                    /\ run_pc' = "raised"
                    /\ UNCHANGED attempt
    /\ metrics' = Append(metrics, "timeout")
    /\ UNCHANGED <<vlm_max_retries, vlm_input, last_invalid>>
    /\ UNCHANGED <<doc_vars, ap_vars, ge_vars, cn_vars, rt_vars, bt_vars, rl_vars, af_vars>>

\* except VLMTimeout
AttemptTimeout ==
    /\ InLoop
    /\ \E m \in Messages :
         /\ backend_log' = Append(backend_log, BackendEntry("timeout", m, ""))
         /\ run_out' = HTTPException(504, "timeout", m)
    /\ metrics' = Append(metrics, "timeout")
    /\ run_pc' = "raised"
    /\ UNCHANGED <<vlm_max_retries, attempt, vlm_input, last_invalid>>
    /\ UNCHANGED <<doc_vars, ap_vars, ge_vars, cn_vars, rt_vars, bt_vars, rl_vars, af_vars>>

\* Faulty variant of AttemptInvalid: the label is recorded only when the invalid
\* output is surfaced, not when it is retried
AttemptInvalid_LabelWhenSurfaced ==
    /\ InLoop
    /\ \E m \in Messages :
         /\ backend_log' = Append(backend_log, BackendEntry("invalid", m, ""))
         /\ last_invalid' = m
         /\ IF attempt < vlm_max_retries
               THEN /\ vlm_input' = _tighten_prompt(vlm_input)
                    /\ attempt' = attempt + 1
                    /\ UNCHANGED <<run_pc, run_out, metrics>>
               ELSE /\ run_out' = HTTPException(502, "invalid_vlm_output", m)
                    /\ run_pc' = "raised"
                    /\ metrics' = Append(metrics, "invalid_output")
                    /\ UNCHANGED <<vlm_input, attempt>>
    /\ UNCHANGED vlm_max_retries
    /\ UNCHANGED <<doc_vars, ap_vars, ge_vars, cn_vars, rt_vars, bt_vars, rl_vars, af_vars>>

\* Faulty variant of AttemptInvalid: the retry test is off by one (one attempt fewer)
AttemptInvalid_OneFewer ==
    /\ InLoop
    /\ \E m \in Messages :
         /\ backend_log' = Append(backend_log, BackendEntry("invalid", m, ""))
         /\ last_invalid' = m
         /\ IF attempt + 1 < vlm_max_retries
               THEN /\ vlm_input' = _tighten_prompt(vlm_input)
                    /\ attempt' = attempt + 1
                    /\ UNCHANGED <<run_pc, run_out>>
               ELSE /\ run_out' = HTTPException(502, "invalid_vlm_output", m)
                    /\ run_pc' = "raised"
                    /\ UNCHANGED <<vlm_input, attempt>>
    /\ metrics' = Append(metrics, "invalid_output")
    /\ UNCHANGED vlm_max_retries
    /\ UNCHANGED <<doc_vars, ap_vars, ge_vars, cn_vars, rt_vars, bt_vars, rl_vars, af_vars>>

\* except VLMInvalidOutput
AttemptInvalid ==
    /\ InLoop
    /\ \E m \in Messages :
         /\ backend_log' = Append(backend_log, BackendEntry("invalid", m, ""))
         /\ last_invalid' = m
         /\ IF attempt < vlm_max_retries
               THEN /\ vlm_input' = _tighten_prompt(vlm_input)
                    /\ attempt' = attempt + 1
                    /\ UNCHANGED <<run_pc, run_out>>
               ELSE /\ run_out' = HTTPException(502, "invalid_vlm_output", m)
                    /\ run_pc' = "raised"
                    /\ UNCHANGED <<vlm_input, attempt>>
    /\ metrics' = Append(metrics, "invalid_output")
    /\ UNCHANGED vlm_max_retries
    /\ UNCHANGED <<doc_vars, ap_vars, ge_vars, cn_vars, rt_vars, bt_vars, rl_vars, af_vars>>

\* Faulty variant of AttemptFailed: the failure is surfaced under the code of
\* invalid output
AttemptFailed_AsInvalid ==
    /\ InLoop
    /\ \E m \in Messages :
         /\ backend_log' = Append(backend_log, BackendEntry("error", m, ""))
         /\ run_out' = HTTPException(502, "invalid_vlm_output", m)
    /\ metrics' = Append(metrics, "failed")
    /\ run_pc' = "raised"
    /\ UNCHANGED <<vlm_max_retries, attempt, vlm_input, last_invalid>>
    /\ UNCHANGED <<doc_vars, ap_vars, ge_vars, cn_vars, rt_vars, bt_vars, rl_vars, af_vars>>

\* Faulty variant of AttemptFailed: the failure is retried while attempts remain
AttemptFailed_Retried ==
    /\ InLoop
    /\ \E m \in Messages :
         /\ backend_log' = Append(backend_log, BackendEntry("error", m, ""))
         /\ IF attempt < vlm_max_retries
               THEN /\ attempt' = attempt + 1
                    /\ UNCHANGED <<run_pc, run_out>>
               ELSE /\ run_out' = HTTPException(502, "vlm_failed", m)
                    /\ run_pc' = "raised"
                    /\ UNCHANGED attempt
    /\ metrics' = Append(metrics, "failed")
    /\ UNCHANGED <<vlm_max_retries, vlm_input, last_invalid>>
    /\ UNCHANGED <<doc_vars, ap_vars, ge_vars, cn_vars, rt_vars, bt_vars, rl_vars, af_vars>>

\* except Exception
AttemptFailed ==
    /\ InLoop
    /\ \E m \in Messages :
         /\ backend_log' = Append(backend_log, BackendEntry("error", m, ""))
         /\ run_out' = HTTPException(502, "vlm_failed", m)
    /\ metrics' = Append(metrics, "failed")
    /\ run_pc' = "raised"
    /\ UNCHANGED <<vlm_max_retries, attempt, vlm_input, last_invalid>>
    /\ UNCHANGED <<doc_vars, ap_vars, ge_vars, cn_vars, rt_vars, bt_vars, rl_vars, af_vars>>

\* the backend call never returns: the await of run_with_timeout (line 105) waits
\* for the worker thread whatever the deadline, so the run stays in this attempt
AttemptBlocked ==
    /\ InLoop
    /\ backend_log' = Append(backend_log, BackendEntry("pending", "", ""))
    /\ run_pc' = "blocked"
    /\ UNCHANGED <<vlm_max_retries, attempt, vlm_input, last_invalid, run_out, metrics>>
    /\ UNCHANGED <<doc_vars, ap_vars, ge_vars, cn_vars, rt_vars, bt_vars, rl_vars, af_vars>>

\* the raise after the for loop
LoopExhausted ==
    /\ run_pc = "loop"
    /\ ~(attempt < vlm_max_retries + 1)
    /\ run_out' = HTTPException(502, "invalid_vlm_output",
                     IF last_invalid # "None" THEN last_invalid ELSE "Invalid VLM output")
    /\ run_pc' = "raised"
    /\ UNCHANGED <<vlm_max_retries, attempt, vlm_input, last_invalid, backend_log, metrics>>
    /\ UNCHANGED <<doc_vars, ap_vars, ge_vars, cn_vars, rt_vars, bt_vars, rl_vars, af_vars>>

RunnerNext ==
    \/ AttemptOk
    \/ AttemptTimeout
    \/ AttemptInvalid
    \/ AttemptFailed
    \/ AttemptBlocked
    \/ LoopExhausted

\* ========================================================================
\* run_with_timeout (app/analyzers/vlm_runner.py)
\* ========================================================================
\* what run_with_timeout delivered to its caller, and when
RtOutcome(k, v, t) == [kind |-> k, value |-> v, at |-> t]

VLMTimeout(t) == RtOutcome("VLMTimeout", "", t)

\* the fail_after scope has been cancelled
DeadlinePassed == now >= vlm_timeout_seconds

RtIdle ==
    /\ timeout_set = FALSE
    /\ vlm_timeout_seconds = 1
    /\ now = 0
    /\ thread = "none"
    /\ rt_pc = "idle"
    /\ rt_out = <<>>

RtInit ==
    /\ timeout_set \in BOOLEAN
    /\ vlm_timeout_seconds \in 1..MaxDeadline
    /\ now = 0
    /\ thread = "none"
    /\ rt_pc = "start"
    /\ rt_out = <<>>

\* line 13 with a Settings object that has no vlm_timeout_seconds (config.py
\* declares none): the attribute access raises AttributeError, which
\* `except TimeoutError` does not catch; fn is never called
RtUnconfigured ==
    /\ rt_pc = "start"
    /\ ~timeout_set
    /\ rt_out' = Append(rt_out, RtOutcome("raise", "AttributeError", now))
    /\ rt_pc' = "done"
    /\ UNCHANGED <<timeout_set, vlm_timeout_seconds, now, thread>>
    /\ UNCHANGED <<runner_vars, doc_vars, ap_vars, ge_vars, cn_vars, bt_vars, rl_vars, af_vars>>

\* lines 13-14: the scope is entered and the call is handed to the thread pool
RtSubmit ==
    /\ rt_pc = "start"
    /\ timeout_set
    /\ thread' = "queued"
    /\ rt_pc' = "waiting"
    /\ UNCHANGED <<timeout_set, vlm_timeout_seconds, now, rt_out>>
    /\ UNCHANGED <<runner_vars, doc_vars, ap_vars, ge_vars, cn_vars, bt_vars, rl_vars, af_vars>>

\* a worker thread takes the call and starts fn
RtThreadStarts ==
    /\ rt_pc = "waiting"
    /\ thread = "queued"
    /\ thread' = "running"
    /\ UNCHANGED <<timeout_set, vlm_timeout_seconds, now, rt_pc, rt_out>>
    /\ UNCHANGED <<runner_vars, doc_vars, ap_vars, ge_vars, cn_vars, bt_vars, rl_vars, af_vars>>

\* the deadline passes while the call still waits for a worker thread: that
\* wait is cancellable, fail_after raises TimeoutError, line 18 raises VLMTimeout
RtQueuedTimeout ==
    /\ rt_pc = "waiting"
    /\ thread = "queued"
    /\ DeadlinePassed
    /\ rt_out' = Append(rt_out, VLMTimeout(now))
    /\ thread' = "none"
    /\ rt_pc' = "done"
    /\ UNCHANGED <<timeout_set, vlm_timeout_seconds, now>>
    /\ UNCHANGED <<runner_vars, doc_vars, ap_vars, ge_vars, cn_vars, bt_vars, rl_vars, af_vars>>

\* time passes while the caller awaits; a queued call is cancelled at the deadline
RtTick ==
    /\ rt_pc = "waiting"
    /\ now < MaxTime
    /\ ~(thread = "queued" /\ DeadlinePassed)
    /\ now' = now + 1
    /\ UNCHANGED <<timeout_set, vlm_timeout_seconds, thread, rt_pc, rt_out>>
    /\ UNCHANGED <<runner_vars, doc_vars, ap_vars, ge_vars, cn_vars, bt_vars, rl_vars, af_vars>>

\* Faulty variant of RtCallReturns: a late completion delivers the timeout and
\* then the result
RtCallReturns_Both ==
    /\ rt_pc = "waiting"
    /\ thread = "running"
    /\ \E r \in Results :
         rt_out' = IF DeadlinePassed
                      THEN rt_out \o <<VLMTimeout(now), RtOutcome("return", r, now)>>
                      ELSE Append(rt_out, RtOutcome("return", r, now))
    /\ thread' = "finished"
    /\ rt_pc' = "done"
    /\ UNCHANGED <<timeout_set, vlm_timeout_seconds, now>>
    /\ UNCHANGED <<runner_vars, doc_vars, ap_vars, ge_vars, cn_vars, bt_vars, rl_vars, af_vars>>

\* fn returns. to_thread.run_sync (line 14) is awaited with its default of not
\* abandoning the thread on cancellation, so the await ends only here, whatever
\* the deadline. Before the deadline the result is returned (lines 15-16); after
\* it the scope has been cancelled and, depending on whether the cancellation is
\* delivered on leaving the scope, the caller gets the late result or VLMTimeout.
RtCallReturns ==
    /\ rt_pc = "waiting"
    /\ thread = "running"
    /\ \E r \in Results, late \in {"return", "VLMTimeout"} :
         /\ (late = "VLMTimeout") => DeadlinePassed
         /\ rt_out' = Append(rt_out, IF late = "VLMTimeout" THEN VLMTimeout(now)
                                                             ELSE RtOutcome("return", r, now))
    /\ thread' = "finished"
    /\ rt_pc' = "done"
    /\ UNCHANGED <<timeout_set, vlm_timeout_seconds, now>>
    /\ UNCHANGED <<runner_vars, doc_vars, ap_vars, ge_vars, cn_vars, bt_vars, rl_vars, af_vars>>

\* fn raises: the exception leaves the await; a TimeoutError raised by fn itself
\* is caught by line 17 and becomes VLMTimeout whatever the time
RtCallRaises ==
    /\ rt_pc = "waiting"
    /\ thread = "running"
    /\ \E e \in {"RuntimeError", "TimeoutError"}, late \in {"raise", "VLMTimeout"} :
         /\ (late = "VLMTimeout") => DeadlinePassed
         /\ rt_out' = Append(rt_out, IF late = "VLMTimeout" \/ e = "TimeoutError"
                                         THEN VLMTimeout(now)
                                         ELSE RtOutcome("raise", e, now))
    /\ thread' = "finished"
    /\ rt_pc' = "done"
    /\ UNCHANGED <<timeout_set, vlm_timeout_seconds, now>>
    /\ UNCHANGED <<runner_vars, doc_vars, ap_vars, ge_vars, cn_vars, bt_vars, rl_vars, af_vars>>

TimeoutNext ==
    \/ RtUnconfigured
    \/ RtSubmit
    \/ RtThreadStarts
    \/ RtQueuedTimeout
    \/ RtTick
    \/ RtCallReturns
    \/ RtCallRaises

\* ========================================================================
\* Normalized schema (app/analyzers/document_analyzer.py)
\* ========================================================================
\* A score is a rational number n/d (d > 0); strings are sequences of pieces.
Rat(n, d) == [n |-> n, d |-> d]

RatLeq(a, b) == a.n * b.d <= b.n * a.d

RatAdd(a, b) == Rat(a.n * b.d + b.n * a.d, a.d * b.d)

RECURSIVE RatSum(_)
RatSum(s) == IF s = <<>> THEN Rat(0, 1) ELSE RatAdd(Head(s), RatSum(Tail(s)))

\* Optional[Confidence]: None, or Confidence(score, level) with each part optional
NoConfidence == [is_none |-> TRUE, has_score |-> FALSE, score |-> Rat(0, 1), level |-> "None"]

ConfidenceValue(hs, sc, lv) == [is_none |-> FALSE, has_score |-> hs, score |-> sc, level |-> lv]

\* Confidence.__post_init__: the constructor raises ValueError on a score outside [0, 1]
ConfidenceRaises(hs, sc) == hs /\ ~(RatLeq(Rat(0, 1), sc) /\ RatLeq(sc, Rat(1, 1)))

\* Optional[str]
NoneStr == [is_none |-> TRUE, s |-> ""]

SomeStr(x) == [is_none |-> FALSE, s |-> x]

ExtractedField(nm, val, conf) == [name |-> nm, value |-> val, confidence |-> conf]

TableCell(r, c, txt, conf) == [row |-> r, col |-> c, text |-> txt, confidence |-> conf]

ExtractedTable(ti, nr, nc, cs, conf) ==
    [table_index |-> ti, n_rows |-> nr, n_cols |-> nc, cells |-> cs, confidence |-> conf]

PageExtraction(idx, fs, ts, conf, ws, meta) ==
    [page_index |-> idx, fields |-> fs, tables |-> ts, page_confidence |-> conf,
     warnings |-> ws, engine_meta |-> meta]

DocumentExtractionResult(ps, conf, ws, meta) ==
    [pages |-> ps, doc_confidence |-> conf, warnings |-> ws, engine_meta |-> meta]

\* ========================================================================
\* run_document_pipeline
\* ========================================================================
DocumentModes == {"fast", "full"}

\* Exceptions (subclasses of Exception) an analyzer or a backend may raise
ExcTypes == {"RuntimeError", "TimeoutError"}

\* What a DocumentAnalyzer may hand back for a page
AnalyzerConfidences ==
    {NoConfidence,
     ConfidenceValue(TRUE, Rat(1, 2), "None"),
     ConfidenceValue(TRUE, Rat(0, 1), "high"),
     ConfidenceValue(FALSE, Rat(0, 1), "low"),
     ConfidenceValue(FALSE, Rat(0, 1), "medium"),
     ConfidenceValue(FALSE, Rat(0, 1), "high"),
     ConfidenceValue(FALSE, Rat(0, 1), "None")}

AnalyzerWarnings == {<<>>, << <<"w1">> >>, << <<"w2">>, <<"w1">> >>}

AnalyzerPages(idx, mode) ==
    {PageExtraction(idx, <<ExtractedField("total", SomeStr("100"), NoConfidence)>>, <<>>, c, ws,
                    [name |-> "fake", mode |-> mode]) :
        c \in AnalyzerConfidences, ws \in AnalyzerWarnings}

EmptyResult == DocumentExtractionResult(<<>>, NoConfidence, <<>>,
                  [pipeline |-> "", mode |-> "", pages_processed |-> 0, input_file_type |-> ""])

DocNoOutcome == [kind |-> "none", exc |-> "", value |-> EmptyResult]

DocReturned(v) == [kind |-> "return", exc |-> "", value |-> v]

DocRaised(e) == [kind |-> "raise", exc |-> e, value |-> EmptyResult]

AnalyzerEntry(idx, k, e, v) == [index |-> idx, kind |-> k, exc |-> e, value |-> v]

\* f"page[{i}]: {w}"
PagePrefix(idx, w) == <<"page[", ToString(idx), "]: ">> \o w

\* Faulty variant of PrefixAll: the prefix counts pages from one
PrefixAll_OneBased(idx, ws) == [k \in 1..Len(ws) |-> PagePrefix(idx + 1, ws[k])]

PrefixAll(idx, ws) == [k \in 1..Len(ws) |-> PagePrefix(idx, ws[k])]

HasScore(p) == ~p.page_confidence.is_none /\ p.page_confidence.has_score

HasLevel(p) == ~p.page_confidence.is_none /\ p.page_confidence.level # "None"

rank(lv) == IF lv = "low" THEN 0 ELSE IF lv = "medium" THEN 1 ELSE IF lv = "high" THEN 2 ELSE 0

\* Faulty variant of MinByRank: the best level is chosen, not the worst
MinByRank_Best(levels) ==
    LET k == CHOOSE k \in 1..Len(levels) :
                /\ \A j \in 1..Len(levels) : rank(levels[k]) >= rank(levels[j])
                /\ \A j \in 1..(k - 1) : rank(levels[j]) < rank(levels[k])
    IN levels[k]

\* min(levels, key=rank): the first element of least rank
MinByRank(levels) ==
    LET k == CHOOSE k \in 1..Len(levels) :
                /\ \A j \in 1..Len(levels) : rank(levels[k]) <= rank(levels[j])
                /\ \A j \in 1..(k - 1) : rank(levels[j]) > rank(levels[k])
    IN levels[k]

\* Faulty variant of _aggregate_doc_confidence: the sum of the scores is divided
\* by the number of pages, so that a page without a score counts as zero
_aggregate_doc_confidence_AllPages(pages) ==
    LET withScore == SelectSeq(pages, HasScore)
        withLevel == SelectSeq(pages, HasLevel)
        scores == [k \in 1..Len(withScore) |-> withScore[k].page_confidence.score]
        levels == [k \in 1..Len(withLevel) |-> withLevel[k].page_confidence.level]
        total == RatSum(scores)
        avg == Rat(total.n, total.d * Len(pages))
    IN IF scores # <<>>
          THEN IF ConfidenceRaises(TRUE, avg)
                  THEN [raises |-> TRUE, value |-> NoConfidence]
                  ELSE [raises |-> FALSE, value |-> ConfidenceValue(TRUE, avg, "None")]
          ELSE IF levels # <<>>
                  THEN [raises |-> FALSE,
                        value |-> ConfidenceValue(FALSE, Rat(0, 1), MinByRank(levels))]
                  ELSE [raises |-> FALSE, value |-> NoConfidence]

\* Result: [raises, value]; raises when the Confidence constructor rejects the mean
_aggregate_doc_confidence(pages) ==
    LET withScore == SelectSeq(pages, HasScore)
        withLevel == SelectSeq(pages, HasLevel)
        scores == [k \in 1..Len(withScore) |-> withScore[k].page_confidence.score]
        levels == [k \in 1..Len(withLevel) |-> withLevel[k].page_confidence.level]
        total == RatSum(scores)
        avg == Rat(total.n, total.d * Len(scores))
    IN IF scores # <<>>
          THEN IF ConfidenceRaises(TRUE, avg)
                  THEN [raises |-> TRUE, value |-> NoConfidence]
                  ELSE [raises |-> FALSE, value |-> ConfidenceValue(TRUE, avg, "None")]
          ELSE IF levels # <<>>
                  THEN [raises |-> FALSE,
                        value |-> ConfidenceValue(FALSE, Rat(0, 1), MinByRank(levels))]
                  ELSE [raises |-> FALSE, value |-> NoConfidence]

DocIdle ==
    /\ n_pages = 0
    /\ doc_mode = "fast"
    /\ page_i = 0
    /\ page_results = <<>>
    /\ doc_warnings = <<>>
    /\ doc_pc = "idle"
    /\ doc_out = DocNoOutcome
    /\ analyzer_log = <<>>

DocInit ==
    /\ n_pages \in 0..MaxPages
    /\ doc_mode \in DocumentModes
    /\ page_i = 0
    /\ page_results = <<>>
    /\ doc_warnings = <<>>
    /\ doc_pc = "loop"
    /\ doc_out = DocNoOutcome
    /\ analyzer_log = <<>>

InPageLoop == doc_pc = "loop" /\ page_i < n_pages

\* loop body, lines 83-87, for a page_result that is a PageExtraction
CollectPage(page_result) ==
    /\ page_results' = Append(page_results, page_result)
    /\ doc_warnings' = IF page_result.warnings # <<>>
                          THEN doc_warnings \o PrefixAll(page_i, page_result.warnings)
                          ELSE doc_warnings
    /\ page_i' = page_i + 1
    /\ UNCHANGED <<n_pages, doc_mode, doc_pc, doc_out>>

\* analyzer.analyze_page returns a PageExtraction
AnalyzePageReturns ==
    /\ InPageLoop
    /\ \E pe \in AnalyzerPages(page_i, doc_mode) :
         /\ analyzer_log' = Append(analyzer_log, AnalyzerEntry(page_i, "return", "", pe))
         /\ CollectPage(pe)
    /\ UNCHANGED <<runner_vars, ap_vars, ge_vars, cn_vars, rt_vars, bt_vars, rl_vars, af_vars>>

\* Faulty variant of AnalyzePageRaises: the failed page is skipped, not replaced
AnalyzePageRaises_Dropped ==
    /\ InPageLoop
    /\ \E e \in ExcTypes :
         analyzer_log' = Append(analyzer_log,
                            AnalyzerEntry(page_i, "raise", e,
                                          PageExtraction(page_i, <<>>, <<>>, NoConfidence, <<>>,
                                                         [name |-> "unknown", mode |-> doc_mode])))
    /\ page_i' = page_i + 1
    /\ UNCHANGED <<n_pages, doc_mode, page_results, doc_warnings, doc_pc, doc_out>>
    /\ UNCHANGED <<runner_vars, ap_vars, ge_vars, cn_vars, rt_vars, bt_vars, rl_vars, af_vars>>

\* analyzer.analyze_page raises: except Exception builds the empty page
AnalyzePageRaises ==
    /\ InPageLoop
    /\ \E e \in ExcTypes, m \in Messages :
         LET page_result ==
                PageExtraction(page_i, <<>>, <<>>, NoConfidence,
                               << <<"Analyzer exception: ", e, ": ", m>> >>,
                               [name |-> "unknown", mode |-> doc_mode])
         IN /\ analyzer_log' = Append(analyzer_log, AnalyzerEntry(page_i, "raise", e, page_result))
            /\ CollectPage(page_result)
    /\ UNCHANGED <<runner_vars, ap_vars, ge_vars, cn_vars, rt_vars, bt_vars, rl_vars, af_vars>>

\* analyzer.analyze_page returns a value that is no PageExtraction (None):
\* page_result.warnings at line 86 raises AttributeError outside the try block
AnalyzePageReturnsNone ==
    /\ InPageLoop
    /\ analyzer_log' = Append(analyzer_log,
                          AnalyzerEntry(page_i, "return_none", "",
                                        PageExtraction(page_i, <<>>, <<>>, NoConfidence, <<>>,
                                                       [name |-> "", mode |-> ""])))
    /\ doc_pc' = "raised"
    /\ doc_out' = DocRaised("AttributeError")
    /\ UNCHANGED <<n_pages, doc_mode, page_i, page_results, doc_warnings>>
    /\ UNCHANGED <<runner_vars, ap_vars, ge_vars, cn_vars, rt_vars, bt_vars, rl_vars, af_vars>>

\* after the loop: aggregate confidence, build engine_meta, return
PipelineReturn ==
    /\ doc_pc = "loop"
    /\ ~(page_i < n_pages)
    /\ LET agg == _aggregate_doc_confidence(page_results)
           engine_meta == [pipeline |-> "document", mode |-> doc_mode,
                           pages_processed |-> Len(page_results), input_file_type |-> "pdf"]
       IN IF agg.raises
             THEN /\ doc_pc' = "raised"
                  /\ doc_out' = DocRaised("ValueError")
             ELSE /\ doc_pc' = "returned"
                  /\ doc_out' = DocReturned(DocumentExtractionResult(
                                    page_results, agg.value, doc_warnings, engine_meta))
    /\ UNCHANGED <<n_pages, doc_mode, page_i, page_results, doc_warnings, analyzer_log>>
    /\ UNCHANGED <<runner_vars, ap_vars, ge_vars, cn_vars, rt_vars, bt_vars, rl_vars, af_vars>>

PipelineNext ==
    \/ AnalyzePageReturns
    \/ AnalyzePageRaises
    \/ AnalyzePageReturnsNone
    \/ PipelineReturn

\* ========================================================================
\* JSON values and texts returned by a backend
\* ========================================================================
\* A JSON value: t is its Python type after json.loads
\*   "null" | "str" (s) | "num" (n, a rational) | "list" (items) | "obj" (m: key -> value)
JNull == [t |-> "null", s |-> "", n |-> Rat(0, 1), items |-> <<>>, m |-> <<>>]

JStr(x) == [t |-> "str", s |-> x, n |-> Rat(0, 1), items |-> <<>>, m |-> <<>>]

JNum(a, b) == [t |-> "num", s |-> "", n |-> Rat(a, b), items |-> <<>>, m |-> <<>>]

JList(xs) == [t |-> "list", s |-> "", n |-> Rat(0, 1), items |-> xs, m |-> <<>>]

JObj(f) == [t |-> "obj", s |-> "", n |-> Rat(0, 1), items |-> <<>>, m |-> f]

\* a key left out of an object under construction
Missing == [t |-> "missing", s |-> "", n |-> Rat(0, 1), items |-> <<>>, m |-> <<>>]

\* the object holding the keys of `keys` whose value in f is not Missing
ObjOf(keys, f) == JObj([k \in {x \in keys : f[x] # Missing} |-> f[k]])

\* dict.get(key), None when absent
Get(obj, key) == IF key \in DOMAIN obj.m THEN obj.m[key] ELSE JNull

\* A text handed back by a backend:
\*   "empty"   the empty string          "nonstr"  a value that is no str (None)
\*   "garbage" text that is no JSON      "prose"   prose around one JSON document
\*   "json"    exactly one JSON document (json)
Text(k, v) == [kind |-> k, json |-> v]

\* json.loads: [ok, value]; a JSONDecodeError unless the whole text is one document
json_loads(text) ==
    IF text.kind = "json" THEN [ok |-> TRUE, value |-> text.json]
                          ELSE [ok |-> FALSE, value |-> JNull]

\* Python truthiness of a JSON value
Truthy(v) ==
    CASE v.t = "null" -> FALSE
      [] v.t = "str" -> v.s # ""
      [] v.t = "num" -> v.n.n # 0
      [] v.t = "list" -> v.items # <<>>
      [] v.t = "obj" -> DOMAIN v.m # {}
      [] OTHER -> FALSE

\* str(v): the text itself for a str, the repr otherwise
PyStr(v) ==
    CASE v.t = "str" -> v.s
      [] v.t = "num" -> IF v.n.d = 1 THEN ToString(v.n.n) ELSE "<float>"
      [] v.t = "null" -> "None"
      [] v.t = "list" -> "<list>"
      [] OTHER -> "<dict>"

\* float(v): [ok, value]; ValueError/TypeError otherwise
PyFloat(v) ==
    CASE v.t = "num" -> [ok |-> TRUE, value |-> v.n]
      [] v.t = "str" /\ v.s = "0.5" -> [ok |-> TRUE, value |-> Rat(1, 2)]
      [] v.t = "str" /\ v.s = "3" -> [ok |-> TRUE, value |-> Rat(3, 1)]
      [] OTHER -> [ok |-> FALSE, value |-> Rat(0, 1)]

\* int(v): truncation toward zero for a number, an integer literal for a str
PyInt(v) ==
    CASE v.t = "num" -> [ok |-> TRUE,
                         value |-> IF v.n.n >= 0 THEN v.n.n \div v.n.d
                                                 ELSE -((-v.n.n) \div v.n.d)]
      [] v.t = "str" /\ v.s = "3" -> [ok |-> TRUE, value |-> 3]
      [] OTHER -> [ok |-> FALSE, value |-> 0]

\* ========================================================================
\* VLMDocumentAnalyzer.analyze_page and its normalization helpers
\* ========================================================================
TopKeys == {"fields", "tables", "page_confidence", "warnings"}

EmptyExtraction ==
    [k \in TopKeys |-> IF k = "page_confidence" THEN JNull ELSE JList(<<>>)]

\* Faulty variant of _safe_parse_json: JSON that is no object is reported with
\* the warning of text that is no JSON
_safe_parse_json_SameWarning(text) ==
    IF text.kind \in {"empty", "nonstr"}
       THEN [data |-> EmptyExtraction, warnings |-> << <<"Empty model output.">> >>]
       ELSE LET r == json_loads(text)
            IN IF ~r.ok \/ r.value.t # "obj"
                  THEN [data |-> EmptyExtraction,
                        warnings |-> << <<"Model output is not valid JSON; using empty extraction.">> >>]
                  ELSE [data |-> [k \in (DOMAIN r.value.m) \cup TopKeys |->
                                     IF k \in DOMAIN r.value.m THEN r.value.m[k]
                                                               ELSE EmptyExtraction[k]],
                        warnings |-> <<>>]

\* Faulty variant of _safe_parse_json: an object lacking a top-level key is
\* rejected as a whole, with a warning
_safe_parse_json_StrictKeys(text) ==
    IF text.kind \in {"empty", "nonstr"}
       THEN [data |-> EmptyExtraction, warnings |-> << <<"Empty model output.">> >>]
       ELSE LET r == json_loads(text)
            IN IF ~r.ok
                  THEN [data |-> EmptyExtraction,
                        warnings |-> << <<"Model output is not valid JSON; using empty extraction.">> >>]
                  ELSE IF r.value.t # "obj"
                          THEN [data |-> EmptyExtraction,
                                warnings |-> << <<"Model output JSON is not an object; using empty extraction.">> >>]
                  ELSE IF ~(TopKeys \subseteq DOMAIN r.value.m)
                          THEN [data |-> EmptyExtraction,
                                warnings |-> << <<"Model output JSON lacks required keys.">> >>]
                          ELSE [data |-> r.value.m, warnings |-> <<>>]

\* Result: [data, warnings]; data maps at least the four top-level keys
_safe_parse_json(text) ==
    IF text.kind \in {"empty", "nonstr"}
       THEN [data |-> EmptyExtraction, warnings |-> << <<"Empty model output.">> >>]
       ELSE LET r == json_loads(text)
            IN IF ~r.ok
                  THEN [data |-> EmptyExtraction,
                        warnings |-> << <<"Model output is not valid JSON; using empty extraction.">> >>]
                  ELSE IF r.value.t # "obj"
                          THEN [data |-> EmptyExtraction,
                                warnings |-> << <<"Model output JSON is not an object; using empty extraction.">> >>]
                          ELSE [data |-> [k \in (DOMAIN r.value.m) \cup TopKeys |->
                                             IF k \in DOMAIN r.value.m THEN r.value.m[k]
                                                                       ELSE EmptyExtraction[k]],
                                warnings |-> <<>>]

Levels == {"low", "medium", "high"}

\* Faulty variant of _normalize_confidence: a score the constructor rejects
\* discards the whole confidence, its level included
_normalize_confidence_DropsLevel(raw) ==
    IF raw.t = "null" THEN NoConfidence
    ELSE IF raw.t = "obj"
       THEN LET score == Get(raw, "score")
                level == Get(raw, "level")
                f == PyFloat(score)
                has_score == score.t # "null" /\ f.ok
                level_s == IF level.t # "null" /\ PyStr(level) \in Levels
                              THEN PyStr(level) ELSE "None"
            IN IF ConfidenceRaises(has_score, f.value)
                  THEN NoConfidence
                  ELSE ConfidenceValue(has_score, IF has_score THEN f.value ELSE Rat(0, 1),
                                       level_s)
       ELSE NoConfidence

_normalize_confidence(raw) ==
    IF raw.t = "null" THEN NoConfidence
    ELSE IF raw.t = "obj"
       THEN LET score == Get(raw, "score")
                level == Get(raw, "level")
                f == PyFloat(score)
                has_score == score.t # "null" /\ f.ok
                level_s == IF level.t # "null" /\ PyStr(level) \in Levels
                              THEN PyStr(level) ELSE "None"
            IN IF ConfidenceRaises(has_score, f.value)
                  THEN ConfidenceValue(FALSE, Rat(0, 1), level_s)
                  ELSE ConfidenceValue(has_score, IF has_score THEN f.value ELSE Rat(0, 1),
                                       level_s)
       ELSE NoConfidence

\* Faulty variant of NormalizeFieldItems: the loop stops at the first item it
\* cannot use instead of skipping it
RECURSIVE NormalizeFieldItems_Break(_)
NormalizeFieldItems_Break(items) ==
    IF items = <<>> THEN <<>>
    ELSE LET item == Head(items)
             rest == NormalizeFieldItems_Break(Tail(items))
             name == Get(item, "name")
             value == Get(item, "value")
         IN IF item.t # "obj" THEN <<>>
            ELSE IF ~Truthy(name) THEN <<>>
            ELSE <<ExtractedField(PyStr(name),
                                  IF value.t = "null" THEN NoneStr ELSE SomeStr(PyStr(value)),
                                  _normalize_confidence(Get(item, "confidence")))>> \o rest

RECURSIVE NormalizeFieldItems(_)
NormalizeFieldItems(items) ==
    IF items = <<>> THEN <<>>
    ELSE LET item == Head(items)
             rest == NormalizeFieldItems(Tail(items))
             name == Get(item, "name")
             value == Get(item, "value")
         IN IF item.t # "obj" THEN rest
            ELSE IF ~Truthy(name) THEN rest
            ELSE <<ExtractedField(PyStr(name),
                                  IF value.t = "null" THEN NoneStr ELSE SomeStr(PyStr(value)),
                                  _normalize_confidence(Get(item, "confidence")))>> \o rest

_normalize_fields(raw) == IF raw.t # "list" THEN <<>> ELSE NormalizeFieldItems(raw.items)

_safe_int(value, default) == LET r == PyInt(value) IN IF r.ok THEN r.value ELSE default

RECURSIVE NormalizeCells(_)
NormalizeCells(items) ==
    IF items = <<>> THEN <<>>
    ELSE LET c == Head(items)
             rest == NormalizeCells(Tail(items))
             text == Get(c, "text")
         IN IF c.t # "obj" THEN rest
            ELSE IF text.t = "null" THEN rest
            ELSE <<TableCell(_safe_int(Get(c, "row"), 0), _safe_int(Get(c, "col"), 0),
                             PyStr(text), _normalize_confidence(Get(c, "confidence")))>> \o rest

\* out: the tables appended so far (table_index defaults to len(out))
RECURSIVE NormalizeTableItems(_, _)
NormalizeTableItems(items, out) ==
    IF items = <<>> THEN out
    ELSE LET t == Head(items)
             cells_raw == Get(t, "cells")
         IN IF t.t # "obj" THEN NormalizeTableItems(Tail(items), out)
            ELSE NormalizeTableItems(Tail(items),
                    Append(out,
                       ExtractedTable(_safe_int(Get(t, "table_index"), Len(out)),
                                      _safe_int(Get(t, "n_rows"), 0),
                                      _safe_int(Get(t, "n_cols"), 0),
                                      IF cells_raw.t = "list" THEN NormalizeCells(cells_raw.items)
                                                              ELSE <<>>,
                                      _normalize_confidence(Get(t, "confidence")))))

_normalize_tables(raw) == IF raw.t # "list" THEN <<>> ELSE NormalizeTableItems(raw.items, <<>>)

\* [str(w) for w in model_warnings if w is not None]
RECURSIVE ModelWarnings(_)
ModelWarnings(items) ==
    IF items = <<>> THEN <<>>
    ELSE IF Head(items).t = "null" THEN ModelWarnings(Tail(items))
    ELSE << <<PyStr(Head(items))>> >> \o ModelWarnings(Tail(items))

\* The client's metadata: a dict of strings (is_dict) or a value without .get (None)
MetaDict(f) == [is_dict |-> TRUE, m |-> f]

MetaNone == [is_dict |-> FALSE, m |-> <<>>]

\* self.model_name or "default"
ModelOrDefault(model_name) == IF model_name = "None" THEN "default" ELSE model_name

PageNoOutcome == [kind |-> "none", exc |-> "",
                  value |-> PageExtraction(0, <<>>, <<>>, NoConfidence, <<>>, <<>>)]

PageReturned(v) == [kind |-> "return", exc |-> "", value |-> v]

PageRaised(e) == [kind |-> "raise", exc |-> e,
                  value |-> PageExtraction(0, <<>>, <<>>, NoConfidence, <<>>, <<>>)]

\* Faulty variant of analyze_page: the keys of the backend's metadata replace
\* name, model and mode
analyze_page_MetaOverrides(inp) ==
    IF inp.client.kind = "raise"
       THEN PageReturned(PageExtraction(inp.page_index, <<>>, <<>>, NoConfidence,
                << <<"VLM call failed: ", inp.client.exc, ": ", inp.client.message>> >>,
                [k \in {"name", "model", "mode"} |->
                    CASE k = "name" -> "vlm"
                      [] k = "model" -> ModelOrDefault(inp.model_name)
                      [] OTHER -> inp.mode]))
       ELSE LET p == _safe_parse_json(inp.client.text)
                parsed == JObj(p.data)
                fields == _normalize_fields(Get(parsed, "fields"))
                tables == _normalize_tables(Get(parsed, "tables"))
                page_conf == _normalize_confidence(Get(parsed, "page_confidence"))
                model_warnings == Get(parsed, "warnings")
                warnings == p.warnings \o (IF model_warnings.t = "list"
                                              THEN ModelWarnings(model_warnings.items)
                                              ELSE <<>>)
                model_meta == inp.client.meta
                base_meta == [k \in {"name", "model", "mode"} |->
                                CASE k = "name" -> "vlm"
                                  [] k = "model" -> IF "model" \in DOMAIN model_meta.m
                                                       THEN model_meta.m["model"]
                                                       ELSE ModelOrDefault(inp.model_name)
                                  [] OTHER -> inp.mode]
                engine_meta == [k \in (DOMAIN base_meta) \cup (DOMAIN model_meta.m) |->
                                  IF k \in DOMAIN model_meta.m THEN model_meta.m[k]
                                                               ELSE base_meta[k]]
            IN IF ~model_meta.is_dict
                  THEN PageRaised("AttributeError")
                  ELSE PageReturned(PageExtraction(inp.page_index, fields, tables, page_conf,
                                                   warnings, engine_meta))

\* inp: [page_index, mode, model_name, client], client the behaviour of
\* self.client.analyze_image: [kind: "raise" | "return", exc, message, text, meta]
analyze_page(inp) ==
    IF inp.client.kind = "raise"
       THEN PageReturned(PageExtraction(inp.page_index, <<>>, <<>>, NoConfidence,
                << <<"VLM call failed: ", inp.client.exc, ": ", inp.client.message>> >>,
                [k \in {"name", "model", "mode"} |->
                    CASE k = "name" -> "vlm"
                      [] k = "model" -> ModelOrDefault(inp.model_name)
                      [] OTHER -> inp.mode]))
       ELSE LET p == _safe_parse_json(inp.client.text)
                parsed == JObj(p.data)
                fields == _normalize_fields(Get(parsed, "fields"))
                tables == _normalize_tables(Get(parsed, "tables"))
                page_conf == _normalize_confidence(Get(parsed, "page_confidence"))
                model_warnings == Get(parsed, "warnings")
                warnings == p.warnings \o (IF model_warnings.t = "list"
                                              THEN ModelWarnings(model_warnings.items)
                                              ELSE <<>>)
                model_meta == inp.client.meta
                base_meta == [k \in {"name", "model", "mode"} |->
                                CASE k = "name" -> "vlm"
                                  [] k = "model" -> IF "model" \in DOMAIN model_meta.m
                                                       THEN model_meta.m["model"]
                                                       ELSE ModelOrDefault(inp.model_name)
                                  [] OTHER -> inp.mode]
                engine_meta == [k \in (DOMAIN base_meta) \cup (DOMAIN model_meta.m) |->
                                  IF k \in DOMAIN base_meta THEN base_meta[k]
                                                            ELSE model_meta.m[k]]
            IN IF ~model_meta.is_dict
                  THEN PageRaised("AttributeError")
                  ELSE PageReturned(PageExtraction(inp.page_index, fields, tables, page_conf,
                                                   warnings, engine_meta))

\* ---- the backend responses analyze_page is run on ----
Obj2(k1, v1, k2, v2) == JObj([k \in {k1, k2} |-> IF k = k1 THEN v1 ELSE v2])

Obj3(k1, v1, k2, v2, k3, v3) ==
    JObj([k \in {k1, k2, k3} |-> IF k = k1 THEN v1 ELSE IF k = k2 THEN v2 ELSE v3])

GoodConf == Obj2("score", JNum(1, 2), "level", JStr("high"))

GoodField == Obj3("name", JStr("total"), "value", JStr("100"), "confidence", GoodConf)

FieldChoices ==
    {Missing,
     JList(<<>>),
     JList(<<GoodField>>),
     JList(<<JStr("x"), GoodField, Obj2("name", JNull, "value", JStr("v")),
             Obj2("name", JStr("date"), "value", JNull)>>),
     JStr("not a list")}

GoodCell == Obj3("row", JNum(0, 1), "col", JNum(1, 1), "text", JStr("Item"))

TableChoices ==
    {Missing,
     JList(<<JObj([k \in {"table_index", "n_rows", "n_cols", "cells"} |->
                    CASE k = "table_index" -> JNum(0, 1)
                      [] k = "n_rows" -> JNum(2, 1)
                      [] k = "n_cols" -> JStr("3")
                      [] OTHER -> JList(<<GoodCell, JNull,
                                          Obj3("row", JNum(1, 1), "col", JNum(0, 1),
                                               "text", JNull),
                                          Obj3("row", JNum(1, 1), "col", JNum(1, 1),
                                               "text", JStr("Total"))>>)])>>),
     JList(<<JNull,
             JObj([k \in {"n_rows", "n_cols", "cells"} |->
                    CASE k = "n_rows" -> JNum(-1, 1)
                      [] k = "n_cols" -> JStr("abc")
                      [] OTHER -> JList(<<Obj3("row", JNum(-2, 1), "col", JNum(5, 2),
                                               "text", JNum(7, 1))>>)])>>),
     JNum(4, 1)}

ConfChoices ==
    {Missing,
     JNull,
     GoodConf,
     Obj2("score", JNum(3, 2), "level", JStr("low")),
     Obj2("score", JStr("abc"), "level", JStr("bogus")),
     Obj2("score", JNum(-1, 10), "level", JNull),
     JStr("high")}

WarnChoices ==
    {Missing,
     JList(<<JStr("ok")>>),
     JList(<<JNull, JStr("blurry"), JNum(5, 1)>>),
     JStr("not a list")}

ObjectTexts ==
    {Text("json", ObjOf(TopKeys, [k \in TopKeys |->
                           CASE k = "fields" -> f
                             [] k = "tables" -> t
                             [] k = "page_confidence" -> c
                             [] OTHER -> w])) :
        f \in FieldChoices, t \in TableChoices, c \in ConfChoices, w \in WarnChoices}

OtherTexts ==
    {Text("empty", JNull), Text("nonstr", JNull), Text("garbage", JNull),
     Text("prose", GoodConf), Text("json", JList(<<GoodField>>)), Text("json", JNum(1, 1)),
     Text("json", JNull)}

MetaChoices ==
    {MetaNone,
     MetaDict(<<>>),
     MetaDict([k \in {"model"} |-> "fake-vlm-1"]),
     MetaDict([k \in {"model", "name", "mode", "tokens"} |->
                 CASE k = "model" -> "fake-vlm-2"
                   [] k = "name" -> "spoofed"
                   [] k = "mode" -> "spoofed"
                   [] OTHER -> "17"])}

ClientRaises(e, msg) ==
    [kind |-> "raise", exc |-> e, message |-> msg, text |-> Text("empty", JNull),
     meta |-> MetaNone]

ClientReturns(txt, meta) ==
    [kind |-> "return", exc |-> "", message |-> "", text |-> txt, meta |-> meta]

ClientBehaviours ==
    {ClientRaises(e, msg) : e \in ExcTypes, msg \in Messages}
    \cup {ClientReturns(txt, meta) : txt \in ObjectTexts \cup OtherTexts, meta \in MetaChoices}

AnalyzeInput(idx, mode, mn, c) ==
    [page_index |-> idx, mode |-> mode, model_name |-> mn, client |-> c]

ApIdle ==
    /\ ap_in = AnalyzeInput(0, "fast", "None", ClientRaises("RuntimeError", "m1"))
    /\ ap_pc = "idle"
    /\ ap_out = PageNoOutcome

ApInit ==
    /\ ap_in \in {AnalyzeInput(idx, mode, mn, c) :
                     idx \in {0, MaxPages - 1}, mode \in DocumentModes,
                     mn \in {"None", "cfg-model"}, c \in ClientBehaviours}
    /\ ap_pc = "call"
    /\ ap_out = PageNoOutcome

AnalyzePage ==
    /\ ap_pc = "call"
    /\ ap_out' = analyze_page(ap_in)
    /\ ap_pc' = "done"
    /\ UNCHANGED ap_in
    /\ UNCHANGED <<runner_vars, doc_vars, ge_vars, cn_vars, rt_vars, bt_vars, rl_vars, af_vars>>

AnalyzerNext == AnalyzePage

\* ========================================================================
\* POST /document: run_document_pipeline over a VLMDocumentAnalyzer
\* (app/api/routes_document.py)
\* ========================================================================
NoResponse == [status_code |-> 0, code |-> ""]

JSONResponse(sc, c) == [status_code |-> sc, code |-> c]

\* JSON-only text with one field, a confidence and a warning
GoodText ==
    Text("json", ObjOf(TopKeys, [k \in TopKeys |->
                         CASE k = "fields" -> JList(<<GoodField>>)
                           [] k = "tables" -> JList(<<>>)
                           [] k = "page_confidence" -> GoodConf
                           [] OTHER -> JList(<<JStr("blurry")>>)]))

\* what client.analyze_image does on one page
BatchClients ==
    {ClientRaises("RuntimeError", "m1"),
     ClientRaises("TimeoutError", "m2"),
     ClientReturns(GoodText, MetaDict([k \in {"model"} |-> "fake-vlm-1"])),
     ClientReturns(GoodText, MetaDict([k \in {"model", "name", "mode", "tokens"} |->
                                         CASE k = "model" -> "fake-vlm-2"
                                           [] k = "name" -> "spoofed"
                                           [] k = "mode" -> "spoofed"
                                           [] OTHER -> "17"])),
     ClientReturns(Text("garbage", JNull), MetaDict(<<>>)),
     ClientReturns(GoodText, MetaNone)}

\* a call of client.analyze_image that never returns
ClientBlocks ==
    [kind |-> "block", exc |-> "", message |-> "", text |-> Text("empty", JNull),
     meta |-> MetaNone]

BtIdle ==
    /\ analyzer_model_name = "None"
    /\ client_log = <<>>
    /\ response = NoResponse

BtInit ==
    /\ analyzer_model_name \in {"None", "cfg-model"}
    /\ client_log = <<>>
    /\ response = NoResponse

\* the page the pipeline's except branch builds (document_pipeline.py:71-80)
FallbackPage(e, msg) ==
    PageExtraction(page_i, <<>>, <<>>, NoConfidence,
                   << <<"Analyzer exception: ", e, ": ", msg>> >>,
                   [name |-> "unknown", mode |-> doc_mode])

\* Faulty variant of AnalyzePageVLM: once a page's backend call has failed, the
\* later pages are reported with that failure
AnalyzePageVLM_Sticky ==
    /\ InPageLoop
    /\ \E c \in BatchClients :
         LET failed == {k \in DOMAIN client_log : client_log[k].kind = "raise"}
             used == IF failed = {} THEN c ELSE client_log[CHOOSE k \in failed : TRUE]
             r == analyze_page(AnalyzeInput(page_i, doc_mode, analyzer_model_name, used))
             page_result == IF r.kind = "return"
                               THEN r.value
                               ELSE FallbackPage(r.exc, "'NoneType' object has no attribute 'get'")
         IN /\ client_log' = Append(client_log, c)
            /\ analyzer_log' = Append(analyzer_log,
                                   AnalyzerEntry(page_i, r.kind, r.exc, page_result))
            /\ CollectPage(page_result)
    /\ UNCHANGED <<analyzer_model_name, response>>
    /\ UNCHANGED <<runner_vars, ap_vars, ge_vars, cn_vars, rt_vars, rl_vars, af_vars>>

\* Faulty variant of AnalyzePageVLM: a TimeoutError of the backend leaves
\* analyze_page and the pipeline
AnalyzePageVLM_TimeoutEscapes ==
    /\ InPageLoop
    /\ \E c \in BatchClients :
         LET r == analyze_page(AnalyzeInput(page_i, doc_mode, analyzer_model_name, c))
             page_result == IF r.kind = "return"
                               THEN r.value
                               ELSE FallbackPage(r.exc, "'NoneType' object has no attribute 'get'")
         IN /\ client_log' = Append(client_log, c)
            /\ IF c.kind = "raise" /\ c.exc = "TimeoutError"
                  THEN /\ doc_pc' = "raised"
                       /\ doc_out' = DocRaised("TimeoutError")
                       /\ UNCHANGED <<n_pages, doc_mode, page_i, page_results,
                                      doc_warnings, analyzer_log>>
                  ELSE /\ analyzer_log' = Append(analyzer_log,
                                              AnalyzerEntry(page_i, r.kind, r.exc, page_result))
                       /\ CollectPage(page_result)
    /\ UNCHANGED <<analyzer_model_name, response>>
    /\ UNCHANGED <<runner_vars, ap_vars, ge_vars, cn_vars, rt_vars, rl_vars, af_vars>>

\* one iteration of the page loop with analyzer = VLMDocumentAnalyzer: the
\* backend is called directly by analyze_page (no timeout, no retry); what
\* analyze_page returns is collected, what it raises becomes the fallback page
AnalyzePageVLM ==
    /\ InPageLoop
    /\ \E c \in BatchClients :
         LET r == analyze_page(AnalyzeInput(page_i, doc_mode, analyzer_model_name, c))
             page_result == IF r.kind = "return"
                               THEN r.value
                               ELSE FallbackPage(r.exc, "'NoneType' object has no attribute 'get'")
         IN /\ client_log' = Append(client_log, c)
            /\ analyzer_log' = Append(analyzer_log,
                                   AnalyzerEntry(page_i, r.kind, r.exc, page_result))
            /\ CollectPage(page_result)
    /\ UNCHANGED <<analyzer_model_name, response>>
    /\ UNCHANGED <<runner_vars, ap_vars, ge_vars, cn_vars, rt_vars, rl_vars, af_vars>>

\* the backend call of this page never returns: analyze_page, the page loop and
\* the request handler wait in it
AnalyzePageVLMBlocks ==
    /\ InPageLoop
    /\ client_log' = Append(client_log, ClientBlocks)
    /\ doc_pc' = "blocked"
    /\ UNCHANGED <<n_pages, doc_mode, page_i, page_results, doc_warnings, doc_out,
                   analyzer_log>>
    /\ UNCHANGED <<analyzer_model_name, response>>
    /\ UNCHANGED <<runner_vars, ap_vars, ge_vars, cn_vars, rt_vars, rl_vars, af_vars>>

\* analyze_document: parameter validation or preprocess_document fails before
\* any page exists
RoutePreprocessFails ==
    /\ doc_pc = "loop"
    /\ n_pages = 0
    /\ response = NoResponse
    /\ \E e \in {JSONResponse(400, "invalid_parameters"),
                  JSONResponse(413, "payload_too_large"),
                  JSONResponse(400, "unsupported_file_type"),
                  JSONResponse(422, "document_parse_error")} :
         response' = e
    /\ doc_pc' = "rejected"
    /\ UNCHANGED <<n_pages, doc_mode, page_i, page_results, doc_warnings, doc_out,
                   analyzer_log>>
    /\ UNCHANGED <<analyzer_model_name, client_log>>
    /\ UNCHANGED <<runner_vars, ap_vars, ge_vars, cn_vars, rt_vars, rl_vars, af_vars>>

\* analyze_document after run_document_pipeline: 200 for a result, 504 for a
\* TimeoutError, 502 for any other exception
RouteResponds ==
    /\ doc_pc \in {"returned", "raised"}
    /\ response = NoResponse
    /\ response' = IF doc_pc = "returned" THEN JSONResponse(200, "")
                   ELSE IF doc_out.exc = "TimeoutError" THEN JSONResponse(504, "timeout")
                   ELSE JSONResponse(502, "downstream_failure")
    /\ UNCHANGED <<doc_vars, analyzer_model_name, client_log>>
    /\ UNCHANGED <<runner_vars, ap_vars, ge_vars, cn_vars, rt_vars, rl_vars, af_vars>>

BatchNext ==
    \/ AnalyzePageVLM
    \/ AnalyzePageVLMBlocks
    \/ PipelineReturn
    \/ RoutePreprocessFails
    \/ RouteResponds

\* ========================================================================
\* generate_grounded_explanation (app/explainers/grounded_explainer.py)
\* ========================================================================
_REQUIRED_KEYS == {"explanation", "recommendation", "risk_level", "assumptions", "limitations"}

\* values that cannot be hashed: `x in {...}` raises TypeError on them
Unhashable(v) == v.t \in {"list", "obj"}

\* Faulty variant of _parse_llm_json: the JSON document inside prose is extracted
_parse_llm_json_Lenient(text) ==
    IF text.kind \in {"json", "prose"} THEN text.json ELSE JNull

\* Result: [value, is_none]; None when json.loads raises, or when it returns None
_parse_llm_json(text) ==
    LET r == json_loads(text)
    IN IF text.kind # "nonstr" /\ r.ok THEN r.value ELSE JNull

\* Faulty variant of _validate_schema: extra keys are tolerated
_validate_schema_ExtraKeys(obj) ==
    IF obj.t # "obj" THEN [raises |-> FALSE, ok |-> FALSE]
    ELSE IF ~(_REQUIRED_KEYS \subseteq DOMAIN obj.m) THEN [raises |-> FALSE, ok |-> FALSE]
    ELSE IF Unhashable(obj.m["risk_level"]) THEN [raises |-> TRUE, ok |-> FALSE]
    ELSE IF ~(obj.m["risk_level"].t = "str" /\ obj.m["risk_level"].s \in Levels)
            THEN [raises |-> FALSE, ok |-> FALSE]
    ELSE IF obj.m["assumptions"].t # "list" THEN [raises |-> FALSE, ok |-> FALSE]
    ELSE IF obj.m["limitations"].t # "list" THEN [raises |-> FALSE, ok |-> FALSE]
    ELSE [raises |-> FALSE, ok |-> TRUE]

\* Result: [raises, ok]
_validate_schema(obj) ==
    IF obj.t # "obj" THEN [raises |-> FALSE, ok |-> FALSE]
    ELSE IF DOMAIN obj.m # _REQUIRED_KEYS THEN [raises |-> FALSE, ok |-> FALSE]
    ELSE IF Unhashable(obj.m["risk_level"]) THEN [raises |-> TRUE, ok |-> FALSE]
    ELSE IF ~(obj.m["risk_level"].t = "str" /\ obj.m["risk_level"].s \in Levels)
            THEN [raises |-> FALSE, ok |-> FALSE]
    ELSE IF obj.m["assumptions"].t # "list" THEN [raises |-> FALSE, ok |-> FALSE]
    ELSE IF obj.m["limitations"].t # "list" THEN [raises |-> FALSE, ok |-> FALSE]
    ELSE [raises |-> FALSE, ok |-> TRUE]

FallbackExplanationText == "A detailed explanation could not be generated reliably."

FallbackRecommendationText == "Review the extracted results manually."

WarningsNote == "The analysis contains warnings that reduce confidence."

\* Faulty variant of _fallback_explanation: low risk when the facts carry no warning
_fallback_explanation_Low(reason, facts) ==
    LET warnings == Get(facts, "warnings")
        has_warnings == Truthy(warnings)
        risk == IF has_warnings THEN "high" ELSE "low"
        limitations == (IF has_warnings THEN <<JStr(WarningsNote)>> ELSE <<>>)
                          \o <<JStr(reason)>>
    IN JObj([k \in _REQUIRED_KEYS |->
                CASE k = "explanation" -> JStr(FallbackExplanationText)
                  [] k = "recommendation" -> JStr(FallbackRecommendationText)
                  [] k = "risk_level" -> JStr(risk)
                  [] k = "assumptions" -> JList(<<>>)
                  [] OTHER -> JList(limitations)])

_fallback_explanation(reason, facts) ==
    LET warnings == Get(facts, "warnings")
        has_warnings == Truthy(warnings)
        risk == IF has_warnings THEN "high" ELSE "medium"
        limitations == (IF has_warnings THEN <<JStr(WarningsNote)>> ELSE <<>>)
                          \o <<JStr(reason)>>
    IN JObj([k \in _REQUIRED_KEYS |->
                CASE k = "explanation" -> JStr(FallbackExplanationText)
                  [] k = "recommendation" -> JStr(FallbackRecommendationText)
                  [] k = "risk_level" -> JStr(risk)
                  [] k = "assumptions" -> JList(<<>>)
                  [] OTHER -> JList(limitations)])

LLMRequest(prompt, temperature, max_tokens, request_id) ==
    [prompt |-> prompt, temperature |-> temperature, max_tokens |-> max_tokens,
     request_id |-> request_id]

\* the prompt embeds the task type, the mode and the serialized facts
_build_prompt(task_type, mode, facts) == [task_type |-> task_type, mode |-> mode, facts |-> facts]

ExplNoOutcome == [kind |-> "none", exc |-> "", path |-> "", value |-> JNull]

ExplReturned(path, v) == [kind |-> "return", exc |-> "", path |-> path, value |-> v]

ExplRaised(e) == [kind |-> "raise", exc |-> e, path |-> "", value |-> JNull]

\* Faulty variant of generate_grounded_explanation: a schema violation is
\* reported with the reason of a parse failure
generate_grounded_explanation_OneReason(inp) ==
    IF inp.llm.kind = "raise"
       THEN ExplReturned("llm_error",
                         _fallback_explanation("LLM error: " \o inp.llm.exc, inp.facts))
       ELSE LET parsed == _parse_llm_json(inp.llm.raw_text)
                valid == _validate_schema(parsed)
            IN IF parsed.t = "null"
                  THEN ExplReturned("invalid_json",
                                    _fallback_explanation("Invalid JSON returned by LLM", inp.facts))
                  ELSE IF valid.raises THEN ExplRaised("TypeError")
                  ELSE IF ~valid.ok
                          THEN ExplReturned("schema",
                                            _fallback_explanation("Invalid JSON returned by LLM",
                                                                  inp.facts))
                          ELSE ExplReturned("success", parsed)

\* inp: [task_type, mode, facts, request_id, llm], llm the behaviour of llm.generate:
\* [kind: "raise" | "return", exc, raw_text].  path names the branch that returned.
generate_grounded_explanation(inp) ==
    IF inp.llm.kind = "raise"
       THEN ExplReturned("llm_error",
                         _fallback_explanation("LLM error: " \o inp.llm.exc, inp.facts))
       ELSE LET parsed == _parse_llm_json(inp.llm.raw_text)
                valid == _validate_schema(parsed)
            IN IF parsed.t = "null"
                  THEN ExplReturned("invalid_json",
                                    _fallback_explanation("Invalid JSON returned by LLM", inp.facts))
                  ELSE IF valid.raises THEN ExplRaised("TypeError")
                  ELSE IF ~valid.ok
                          THEN ExplReturned("schema",
                                            _fallback_explanation("LLM JSON missing required keys",
                                                                  inp.facts))
                          ELSE ExplReturned("success", parsed)

\* ---- the inputs generate_grounded_explanation is run on ----
FactsWarnings ==
    {Missing, JNull, JList(<<>>), JList(<<JStr("some_warning")>>),
     JList(<<JStr("page[0]: blurry"), JStr("page[1]: cut off")>>)}

FactsChoices ==
    {ObjOf({"finding", "confidence", "warnings"},
           [k \in {"finding", "confidence", "warnings"} |->
               CASE k = "finding" -> JStr("something")
                 [] k = "confidence" -> c
                 [] OTHER -> w]) : c \in {JNum(1, 5), JNum(9, 10)}, w \in FactsWarnings}

RiskChoices ==
    {JStr("low"), JStr("medium"), JStr("high"), JStr("critical"), JNull, JNum(1, 1),
     JList(<<JStr("low")>>), Obj2("level", JStr("low"), "score", JNum(1, 1))}

ListChoices == {JList(<<>>), JList(<<JStr("note")>>), JStr("not a list"), JNull}

ExplanationKeySets ==
    {_REQUIRED_KEYS,
     _REQUIRED_KEYS \cup {"extra_field"},
     _REQUIRED_KEYS \ {"limitations"},
     _REQUIRED_KEYS \ {"risk_level"},
     {}}

ExplanationObjects ==
    {JObj([k \in ks |->
             CASE k = "risk_level" -> r
               [] k = "assumptions" -> a
               [] k = "limitations" -> l
               [] OTHER -> JStr("x")]) :
        ks \in ExplanationKeySets, r \in RiskChoices, a \in ListChoices, l \in ListChoices}

RawTexts ==
    {Text("json", o) : o \in ExplanationObjects}
    \cup {Text("prose", o) : o \in {x \in ExplanationObjects : DOMAIN x.m = _REQUIRED_KEYS
                                       /\ _validate_schema(x).ok}}
    \cup {Text("empty", JNull), Text("nonstr", JNull), Text("garbage", JNull),
          Text("json", JNull), Text("json", JList(<<>>)), Text("json", JStr("low")),
          Text("json", JNum(3, 1))}

LLMExcTypes == ExcTypes \cup {"LLMTimeoutError", "LLMDownstreamError"}

LLMRaises(e) == [kind |-> "raise", exc |-> e, raw_text |-> Text("empty", JNull)]

LLMReturns(txt) == [kind |-> "return", exc |-> "", raw_text |-> txt]

LLMBehaviours == {LLMRaises(e) : e \in LLMExcTypes} \cup {LLMReturns(txt) : txt \in RawTexts}

ExplainInput(tt, mode, facts, rid, llm) ==
    [task_type |-> tt, mode |-> mode, facts |-> facts, request_id |-> rid, llm |-> llm]

GeIdle ==
    /\ ge_in = ExplainInput("image", "fast", JObj(<<>>), "None", LLMRaises("RuntimeError"))
    /\ ge_pc = "idle"
    /\ ge_out = ExplNoOutcome
    /\ llm_calls = <<>>

GeInit ==
    /\ ge_in \in {ExplainInput(tt, "fast", facts, "rid-1", llm) :
                     tt \in {"image", "document"}, facts \in FactsChoices,
                     llm \in LLMBehaviours}
    /\ ge_pc = "call"
    /\ ge_out = ExplNoOutcome
    /\ llm_calls = <<>>

\* Faulty variant of GenerateGroundedExplanation: the backend is called a second
\* time when the first call raised
GenerateGroundedExplanation_Retry ==
    /\ ge_pc = "call"
    /\ llm_calls' =
          LET req == LLMRequest(_build_prompt(ge_in.task_type, ge_in.mode, ge_in.facts),
                                0, 600, ge_in.request_id)
          IN IF ge_in.llm.kind = "raise" THEN <<req, req>> ELSE <<req>>
    /\ ge_out' = generate_grounded_explanation(ge_in)
    /\ ge_pc' = "done"
    /\ UNCHANGED ge_in
    /\ UNCHANGED <<runner_vars, doc_vars, ap_vars, cn_vars, rt_vars, bt_vars, rl_vars, af_vars>>

GenerateGroundedExplanation ==
    /\ ge_pc = "call"
    /\ llm_calls' = Append(llm_calls,
                           LLMRequest(_build_prompt(ge_in.task_type, ge_in.mode, ge_in.facts),
                                      0, 600, ge_in.request_id))
    /\ ge_out' = generate_grounded_explanation(ge_in)
    /\ ge_pc' = "done"
    /\ UNCHANGED ge_in
    /\ UNCHANGED <<runner_vars, doc_vars, ap_vars, cn_vars, rt_vars, bt_vars, rl_vars, af_vars>>

ExplainerNext == GenerateGroundedExplanation

\* ========================================================================
\* _confidence_to_number (app/api/routes_document.py)
\* ========================================================================
\* Faulty variant of _confidence_to_number: the score is tested for truth, so a
\* score of 0 falls through to the level table
_confidence_to_number_Truthy(c) ==
    IF c.is_none THEN Rat(0, 1)
    ELSE IF c.has_score /\ c.score.n # 0 THEN c.score
    ELSE IF c.level = "high" THEN Rat(85, 100)
    ELSE IF c.level = "medium" THEN Rat(60, 100)
    ELSE IF c.level = "low" THEN Rat(30, 100)
    ELSE Rat(0, 1)

_confidence_to_number(c) ==
    IF c.is_none THEN Rat(0, 1)
    ELSE IF c.has_score THEN c.score
    ELSE IF c.level = "high" THEN Rat(85, 100)
    ELSE IF c.level = "medium" THEN Rat(60, 100)
    ELSE IF c.level = "low" THEN Rat(30, 100)
    ELSE Rat(0, 1)

\* ---- the confidences _confidence_to_number is run on ----
ScoreChoices == {Rat(k, 20) : k \in 0..20}

LevelChoices == {"None", "low", "medium", "high"}

ConfidenceInputs ==
    {NoConfidence}
    \cup {ConfidenceValue(TRUE, s, lv) : s \in ScoreChoices, lv \in LevelChoices}
    \cup {ConfidenceValue(FALSE, Rat(0, 1), lv) : lv \in LevelChoices}

CnIdle ==
    /\ cn_in = NoConfidence
    /\ cn_pc = "idle"
    /\ cn_out = Rat(0, 1)

CnInit ==
    /\ cn_in \in ConfidenceInputs
    /\ cn_pc = "call"
    /\ cn_out = Rat(0, 1)

ConfidenceToNumber ==
    /\ cn_pc = "call"
    /\ cn_out' = _confidence_to_number(cn_in)
    /\ cn_pc' = "done"
    /\ UNCHANGED cn_in
    /\ UNCHANGED <<runner_vars, doc_vars, ap_vars, ge_vars, rt_vars, bt_vars, rl_vars, af_vars>>

RoutesNext == ConfidenceToNumber

\* ========================================================================
\* _aggregate_fields (app/api/routes_document.py)
\* ========================================================================
\* best[key] = entry
Put(best, key, entry) ==
    [x \in DOMAIN best \cup {key} |-> IF x = key THEN entry ELSE best[x]]

\* the fields of the pages in the order of the two nested loops
RECURSIVE FieldsInOrder(_)
FieldsInOrder(pages) ==
    IF pages = <<>> THEN <<>> ELSE Head(pages).fields \o FieldsInOrder(Tail(pages))

\* `if not f.name or f.value is None: continue`
Skipped(f) == f.name = "" \/ f.value.is_none

\* Faulty variant of AggregateFrom: a later field replaces the entry on equal
\* confidence too
RECURSIVE AggregateFrom_LastWins(_, _)
AggregateFrom_LastWins(fs, best) ==
    IF fs = <<>> THEN best
    ELSE LET f == Head(fs)
             cand_score == _confidence_to_number(f.confidence)
             entry == [value |-> f.value.s, confidence |-> cand_score]
         IN IF Skipped(f) THEN AggregateFrom_LastWins(Tail(fs), best)
            ELSE IF f.name \notin DOMAIN best
               THEN AggregateFrom_LastWins(Tail(fs), Put(best, f.name, entry))
            ELSE IF RatLeq(best[f.name].confidence, cand_score)
               THEN AggregateFrom_LastWins(Tail(fs), Put(best, f.name, entry))
            ELSE AggregateFrom_LastWins(Tail(fs), best)

\* the loop body of lines 203-214 applied to the remaining fields
RECURSIVE AggregateFrom(_, _)
AggregateFrom(fs, best) ==
    IF fs = <<>> THEN best
    ELSE LET f == Head(fs)
             cand_score == _confidence_to_number(f.confidence)
             entry == [value |-> f.value.s, confidence |-> cand_score]
         IN IF Skipped(f) THEN AggregateFrom(Tail(fs), best)
            ELSE IF f.name \notin DOMAIN best
               THEN AggregateFrom(Tail(fs), Put(best, f.name, entry))
            ELSE IF ~RatLeq(cand_score, best[f.name].confidence)
               THEN AggregateFrom(Tail(fs), Put(best, f.name, entry))
            ELSE AggregateFrom(Tail(fs), best)

_aggregate_fields(pages) == AggregateFrom(FieldsInOrder(pages), <<>>)

\* ---- the pages _aggregate_fields is run on ----
AggregateFieldChoices ==
    {ExtractedField("total", SomeStr("100"), ConfidenceValue(TRUE, Rat(1, 2), "None")),
     ExtractedField("total", SomeStr("200"), ConfidenceValue(FALSE, Rat(0, 1), "high")),
     ExtractedField("total", SomeStr("300"), ConfidenceValue(TRUE, Rat(17, 20), "low")),
     ExtractedField("total", NoneStr, ConfidenceValue(TRUE, Rat(1, 1), "high")),
     ExtractedField("date", SomeStr("d"), NoConfidence),
     ExtractedField("date", SomeStr("e"), ConfidenceValue(TRUE, Rat(0, 1), "None")),
     ExtractedField("", SomeStr("x"), ConfidenceValue(TRUE, Rat(1, 1), "high"))}

AggregatePageChoices ==
    {PageExtraction(0, fs, <<>>, NoConfidence, <<>>, [name |-> "vlm"]) :
        fs \in {<<>>} \cup {<<a>> : a \in AggregateFieldChoices}
               \cup {<<a, b>> : a \in AggregateFieldChoices, b \in AggregateFieldChoices}}

AfIdle ==
    /\ af_in = <<>>
    /\ af_pc = "idle"
    /\ af_out = <<>>

AfInit ==
    /\ af_in \in UNION {[1..n -> AggregatePageChoices] : n \in 0..MaxAggPages}
    /\ af_pc = "call"
    /\ af_out = <<>>

AggregateFields ==
    /\ af_pc = "call"
    /\ af_out' = _aggregate_fields(af_in)
    /\ af_pc' = "done"
    /\ UNCHANGED af_in
    /\ UNCHANGED <<runner_vars, doc_vars, ap_vars, ge_vars, cn_vars, rt_vars, bt_vars, rl_vars>>

FieldsNext == AggregateFields

\* ========================================================================
\* RetryingLLMClient.generate (app/llm/llm_client.py)
\* ========================================================================
NoError == [type |-> "None", message |-> <<>>]

LLMErrorValue(ty, msg) == [type |-> ty, message |-> msg]

RlNoOutcome == [kind |-> "none", exc |-> "", message |-> <<>>, raw_text |-> "", attempts |-> 0]

LLMResult(txt, n) ==
    [kind |-> "return", exc |-> "", message |-> <<>>, raw_text |-> txt, attempts |-> n]

RlRaised(err) ==
    [kind |-> "raise", exc |-> err.type, message |-> err.message, raw_text |-> "",
     attempts |-> 0]

InnerEntry(k, x) == [kind |-> k, value |-> x]

RawTextChoices == {"t1", "t2"}

RlIdle ==
    /\ max_attempts = 0
    /\ rl_attempt = 1
    /\ last_err = NoError
    /\ rl_pc = "idle"
    /\ rl_out = RlNoOutcome
    /\ inner_log = <<>>
    /\ sleeps = <<>>

RlInit ==
    /\ max_attempts \in -1..MaxLLMAttempts
    /\ rl_attempt = 1
    /\ last_err = NoError
    /\ rl_pc = "loop"
    /\ rl_out = RlNoOutcome
    /\ inner_log = <<>>
    /\ sleeps = <<>>

InRetryLoop == rl_pc = "loop" /\ rl_attempt <= max_attempts

\* Faulty variant of Backoff: the wrapper sleeps after the last attempt too
Backoff_AfterLast ==
    /\ sleeps' = Append(sleeps, rl_attempt)
    /\ rl_attempt' = rl_attempt + 1

\* lines 141-143 and the next loop iteration
Backoff ==
    /\ sleeps' = IF rl_attempt < max_attempts THEN Append(sleeps, rl_attempt) ELSE sleeps
    /\ rl_attempt' = rl_attempt + 1

\* the inner client returns: the wrapper returns its text and the attempt number
RlAttemptOk ==
    /\ InRetryLoop
    /\ \E txt \in RawTextChoices :
         /\ inner_log' = Append(inner_log, InnerEntry("ok", txt))
         /\ rl_out' = LLMResult(txt, rl_attempt)
    /\ rl_pc' = "returned"
    /\ UNCHANGED <<max_attempts, rl_attempt, last_err, sleeps>>
    /\ UNCHANGED <<runner_vars, doc_vars, ap_vars, ge_vars, cn_vars, rt_vars, bt_vars, af_vars>>

\* Faulty variant of RlAttemptTimeout: the timeout is raised at once
RlAttemptTimeout_NotRetried ==
    /\ InRetryLoop
    /\ \E m \in Messages :
         /\ inner_log' = Append(inner_log, InnerEntry("timeout", m))
         /\ last_err' = LLMErrorValue("LLMTimeoutError", <<m>>)
         /\ rl_out' = RlRaised(LLMErrorValue("LLMTimeoutError", <<m>>))
    /\ rl_pc' = "raised"
    /\ UNCHANGED <<max_attempts, rl_attempt, sleeps>>
    /\ UNCHANGED <<runner_vars, doc_vars, ap_vars, ge_vars, cn_vars, rt_vars, bt_vars, af_vars>>

\* except LLMTimeoutError: kept as last_err, the loop goes on
RlAttemptTimeout ==
    /\ InRetryLoop
    /\ \E m \in Messages :
         /\ inner_log' = Append(inner_log, InnerEntry("timeout", m))
         /\ last_err' = LLMErrorValue("LLMTimeoutError", <<m>>)
    /\ Backoff
    /\ UNCHANGED <<max_attempts, rl_pc, rl_out>>
    /\ UNCHANGED <<runner_vars, doc_vars, ap_vars, ge_vars, cn_vars, rt_vars, bt_vars, af_vars>>

\* except LLMDownstreamError: kept as last_err, the loop goes on
RlAttemptDownstream ==
    /\ InRetryLoop
    /\ \E m \in Messages :
         /\ inner_log' = Append(inner_log, InnerEntry("downstream", m))
         /\ last_err' = LLMErrorValue("LLMDownstreamError", <<m>>)
    /\ Backoff
    /\ UNCHANGED <<max_attempts, rl_pc, rl_out>>
    /\ UNCHANGED <<runner_vars, doc_vars, ap_vars, ge_vars, cn_vars, rt_vars, bt_vars, af_vars>>

\* except Exception: any other exception becomes an LLMDownstreamError whose
\* message names its type
RlAttemptUnknown ==
    /\ InRetryLoop
    /\ \E e \in ExcTypes, m \in Messages :
         /\ inner_log' = Append(inner_log, InnerEntry(e, m))
         /\ last_err' = LLMErrorValue("LLMDownstreamError", <<e, ": ", m>>)
    /\ Backoff
    /\ UNCHANGED <<max_attempts, rl_pc, rl_out>>
    /\ UNCHANGED <<runner_vars, doc_vars, ap_vars, ge_vars, cn_vars, rt_vars, bt_vars, af_vars>>

\* after the loop (lines 145-149): `assert last_err is not None`, then the last
\* error is raised. With no attempt made last_err is None: the assert raises
\* AssertionError, or, when asserts are compiled out (python -O), line 149
\* raises LLMDownstreamError("None")
RlExhausted ==
    /\ rl_pc = "loop"
    /\ ~(rl_attempt <= max_attempts)
    /\ IF last_err = NoError
          THEN \E err \in {LLMErrorValue("AssertionError", <<>>),
                            LLMErrorValue("LLMDownstreamError", <<"None">>)} :
                  rl_out' = RlRaised(err)
          ELSE rl_out' = RlRaised(last_err)
    /\ rl_pc' = "raised"
    /\ UNCHANGED <<max_attempts, rl_attempt, last_err, inner_log, sleeps>>
    /\ UNCHANGED <<runner_vars, doc_vars, ap_vars, ge_vars, cn_vars, rt_vars, bt_vars, af_vars>>

RetryNext ==
    \/ RlAttemptOk
    \/ RlAttemptTimeout
    \/ RlAttemptDownstream
    \/ RlAttemptUnknown
    \/ RlExhausted

\* ========================================================================
\* Specifications
\* ========================================================================
InitRunner == RunnerInit /\ DocIdle /\ ApIdle /\ GeIdle /\ CnIdle /\ RtIdle /\ BtIdle /\ RlIdle /\ AfIdle

InitPipeline == RunnerIdle /\ DocInit /\ ApIdle /\ GeIdle /\ CnIdle /\ RtIdle /\ BtIdle /\ RlIdle /\ AfIdle

InitAnalyzer == RunnerIdle /\ DocIdle /\ ApInit /\ GeIdle /\ CnIdle /\ RtIdle /\ BtIdle /\ RlIdle /\ AfIdle

InitExplainer == RunnerIdle /\ DocIdle /\ ApIdle /\ GeInit /\ CnIdle /\ RtIdle /\ BtIdle /\ RlIdle /\ AfIdle

InitRoutes == RunnerIdle /\ DocIdle /\ ApIdle /\ GeIdle /\ CnInit /\ RtIdle /\ BtIdle /\ RlIdle /\ AfIdle

\* document analysis: either one analyze_page call or one pipeline run
InitDocument == InitAnalyzer \/ InitPipeline

DocumentNext == AnalyzerNext \/ PipelineNext

InitTimeout == RunnerIdle /\ DocIdle /\ ApIdle /\ GeIdle /\ CnIdle /\ RtInit /\ BtIdle /\ RlIdle /\ AfIdle

SpecRunner == InitRunner /\ [][RunnerNext]_vars

SpecTimeout == InitTimeout /\ [][TimeoutNext]_vars

InitRetry ==
    RunnerIdle /\ DocIdle /\ ApIdle /\ GeIdle /\ CnIdle /\ RtIdle /\ BtIdle /\ RlInit /\ AfIdle

SpecRetry == InitRetry /\ [][RetryNext]_vars

InitFields ==
    RunnerIdle /\ DocIdle /\ ApIdle /\ GeIdle /\ CnIdle /\ RtIdle /\ BtIdle /\ RlIdle /\ AfInit

SpecFields == InitFields /\ [][FieldsNext]_vars

InitBatch == RunnerIdle /\ DocInit /\ ApIdle /\ GeIdle /\ CnIdle /\ RtIdle /\ BtInit /\ RlIdle /\ AfIdle

SpecBatch == InitBatch /\ [][BatchNext]_vars

\* the request handler keeps running while it has a step to take
SpecBatchFair == InitBatch /\ [][BatchNext]_vars /\ WF_vars(BatchNext)

\* the event loop keeps running the coroutine while it has a step to take
SpecRunnerFair == InitRunner /\ [][RunnerNext]_vars /\ WF_vars(RunnerNext)

SpecPipeline == InitPipeline /\ [][PipelineNext]_vars

SpecAnalyzer == InitAnalyzer /\ [][AnalyzerNext]_vars

SpecExplainer == InitExplainer /\ [][ExplainerNext]_vars

SpecRoutes == InitRoutes /\ [][RoutesNext]_vars

SpecDocument == InitDocument /\ [][DocumentNext]_vars

\* ========================================================================
\* Properties of _run_vlm_with_retries (checked under SpecRunner)
\* ========================================================================
RunFinished == run_pc \in {"returned", "raised"}

Attempts == Len(backend_log)

SomeAttempt(k) == \E i \in 1..Len(backend_log) : backend_log[i].kind = k

AllAttempts(k) == \A i \in 1..Len(backend_log) : backend_log[i].kind = k

TimeoutReported == run_pc = "raised" /\ run_out.status_code = 504 /\ run_out.code = "timeout"

\* C1: once a backend attempt has ended in VLMTimeout, the run has ended with
\* the 504 timeout failure carrying that timeout's message, and no step of the
\* run invokes the backend again, however many retries remain.
C1_NoInvocationAfterTimeout ==
    /\ [](SomeAttempt("timeout") =>
            /\ run_pc = "raised"
            /\ Last(backend_log).kind = "timeout"
            /\ run_out = HTTPException(504, "timeout", Last(backend_log).message))
    /\ [][SomeAttempt("timeout") => backend_log' = backend_log]_vars

\* a timeout struck while retries were still available
C1_Witness ==
    /\ SomeAttempt("timeout")
    /\ run_pc = "raised"
    /\ attempt < vlm_max_retries

\* C2 as stated: whenever a timeout failure is reported, exactly one backend
\* attempt was made in the run.
C2_TimeoutMeansOneAttempt == TimeoutReported => Attempts = 1

\* C2 amended: whenever a timeout failure is reported, the attempt that timed
\* out is the last attempt of the run, every earlier attempt ended in
\* VLMInvalidOutput, and the number of attempts is one more than the number of
\* those earlier attempts (so exactly 1 when the first attempt times out) and at
\* most vlm_max_retries + 1.
C2_TimeoutIsLastAttempt ==
    TimeoutReported =>
        /\ Attempts >= 1
        /\ Attempts <= vlm_max_retries + 1
        /\ Attempts = attempt + 1
        /\ backend_log[Attempts].kind = "timeout"
        /\ \A i \in 1..(Attempts - 1) : backend_log[i].kind = "invalid"
        /\ (backend_log[1].kind = "timeout" => Attempts = 1)

\* a timeout reported on the second attempt, after one invalid output
C2_Witness ==
    /\ TimeoutReported
    /\ Attempts = 2
    /\ backend_log[1].kind = "invalid"

\* C3: when every backend attempt raised VLMInvalidOutput, the backend is never
\* invoked more than vlm_max_retries + 1 times, and a finished run has invoked
\* it exactly vlm_max_retries + 1 times and raised 502 invalid_vlm_output with
\* the message of the last attempt.
C3_AlwaysInvalidUsesWholeBudget ==
    AllAttempts("invalid") =>
        /\ (vlm_max_retries >= 0 => Attempts <= vlm_max_retries + 1)
        /\ (RunFinished =>
              /\ Attempts = vlm_max_retries + 1
              /\ (Attempts >= 1 =>
                    run_out = HTTPException(502, "invalid_vlm_output",
                                            Last(backend_log).message)))

\* three invalid attempts, the first and the last with different messages
C3_Witness ==
    /\ RunFinished
    /\ AllAttempts("invalid")
    /\ Attempts = 3
    /\ backend_log[1].message # backend_log[3].message
    /\ run_out.message = backend_log[3].message

\* C4 as stated: a failure that is neither a timeout nor invalid output is
\* retried while attempts remain, so it is surfaced only by a run that has used
\* its whole budget of vlm_max_retries + 1 attempts.
C4_DownstreamFailureRetried ==
    (run_pc = "raised" /\ SomeAttempt("error")) => Attempts = vlm_max_retries + 1

\* C4 amended: when a backend attempt raises an exception that is neither a
\* timeout nor invalid output, the run makes no further backend invocation,
\* whatever budget remains, and surfaces that failure at once as 502 vlm_failed
\* with the exception's message; only invalid output is retried.
C4_DownstreamFailureNotRetried ==
    /\ [](SomeAttempt("error") =>
            /\ run_pc = "raised"
            /\ Last(backend_log).kind = "error"
            /\ \A i \in 1..(Attempts - 1) : backend_log[i].kind = "invalid"
            /\ run_out = HTTPException(502, "vlm_failed", Last(backend_log).message))
    /\ [][SomeAttempt("error") => backend_log' = backend_log]_vars

\* a downstream failure surfaced on the first attempt with two retries left
C4_Witness ==
    /\ SomeAttempt("error")
    /\ run_pc = "raised"
    /\ run_out.code = "vlm_failed"
    /\ Attempts = 1
    /\ vlm_max_retries = 2

\* retries + 1 attempts, none when the budget is negative
MaxAttempts == IF vlm_max_retries + 1 > 0 THEN vlm_max_retries + 1 ELSE 0

\* C24: every run reaches a terminal outcome (a result or a surfaced failure),
\* makes at most max_attempts backend invocations, and after the outcome
\* invokes the backend no more and delivers no second outcome.
C24_OneTerminalOutcome ==
    /\ <>RunFinished
    /\ [](Attempts <= MaxAttempts)
    /\ [][RunFinished => (run_pc' = run_pc /\ run_out' = run_out
                            /\ backend_log' = backend_log)]_vars

\* C25: a run that raises surfaces 504 timeout when its last attempt timed out,
\* 502 invalid_vlm_output when it ended in invalid output and 502 vlm_failed
\* when it failed otherwise; the three are different (status, code) pairs, and
\* a run that raises carries no result and has had no successful attempt.
C25_DistinguishableFailures ==
    /\ (run_pc = "raised" /\ Attempts >= 1) =>
          LET last == Last(backend_log)
          IN /\ last.kind \in {"timeout", "invalid", "error"}
             /\ last.kind = "timeout" <=>
                   (run_out.status_code = 504 /\ run_out.code = "timeout")
             /\ last.kind = "invalid" <=>
                   (run_out.status_code = 502 /\ run_out.code = "invalid_vlm_output")
             /\ last.kind = "error" <=>
                   (run_out.status_code = 502 /\ run_out.code = "vlm_failed")
             /\ run_out.message = last.message
    /\ run_pc = "raised" =>
          /\ run_out.kind = "raise"
          /\ run_out.result = ""
          /\ ~SomeAttempt("ok")
    /\ run_pc = "returned" =>
          /\ run_out.kind = "return"
          /\ Last(backend_log).kind = "ok"
          /\ run_out.result = Last(backend_log).result

\* a downstream failure on the retry that followed an invalid output
C25_Witness ==
    /\ run_pc = "raised"
    /\ Attempts = 2
    /\ backend_log[1].kind = "invalid"
    /\ backend_log[2].kind = "error"
    /\ run_out.code = "vlm_failed"

\* the label VLM_REQUESTS_TOTAL gets for an attempt that ended as k
LabelOf(k) ==
    CASE k = "ok" -> "ok"
      [] k = "timeout" -> "timeout"
      [] k = "invalid" -> "invalid_output"
      [] k = "error" -> "failed"
      [] OTHER -> "no label"

C33_AttemptsCount ==
    run_pc = "returned" =>
       /\ run_out.attempts = Attempts
       /\ run_out.attempts >= 1
       /\ run_out.attempts <= vlm_max_retries + 1
       /\ Last(backend_log).kind = "ok"
       /\ run_out.result = Last(backend_log).result
       /\ \A i \in 1..(Attempts - 1) : backend_log[i].kind # "ok"

\* a result on the second attempt
C33_Witness ==
    /\ run_pc = "returned"
    /\ run_out.attempts = 2
    /\ backend_log[1].kind = "invalid"

IsPrefix(s, u) == Len(s) <= Len(u) /\ SubSeq(u, 1, Len(s)) = s

IsSuffix(s, u) == Len(s) <= Len(u) /\ SubSeq(u, Len(u) - Len(s) + 1, Len(u)) = s

Request(k) == backend_log[k].request

\* the first request sent is the request the run was started with
FirstRequestUnmodified ==
    [][(backend_log = <<>> /\ backend_log' # <<>>) =>
          (backend_log'[1].request = vlm_input /\ attempt = 0)]_vars

\* C34 (as stated): the request of an attempt after an invalid output is the
\* previous request with the instruction appended to its prompt (the previous
\* prompt, then the instruction at the end), task and question unchanged; the
\* first attempt sends the caller's request unmodified.
C34_InstructionAppended ==
    /\ [](\A k \in 2..Attempts :
            /\ IsPrefix(Request(k - 1).prompt, Request(k).prompt)
            /\ IsSuffix(extra, Request(k).prompt)
            /\ Request(k).task = Request(k - 1).task
            /\ Request(k).question = Request(k - 1).question)
    /\ FirstRequestUnmodified

\* k copies of the instruction, each after a blank line
RECURSIVE Copies(_)
Copies(k) == IF k = 0 THEN <<>> ELSE Copies(k - 1) \o <<"nl", "nl">> \o extra

\* C34 (amended): the request of an attempt after an invalid output has the
\* previous prompt with its leading and trailing whitespace removed, then a
\* blank line and the instruction (the instruction alone when nothing remains),
\* task and question unchanged; so attempt k+1 sends the stripped original
\* prompt followed by k copies of the instruction; the first attempt sends the
\* caller's request unmodified.
C34_InstructionAppendedToStripped ==
    /\ [](\A k \in 2..Attempts :
            LET prev == Strip(Request(k - 1).prompt)
                base == Strip(Request(1).prompt)
            IN /\ backend_log[k - 1].kind = "invalid"
               /\ Request(k).prompt = IF prev # <<>> THEN prev \o <<"nl", "nl">> \o extra
                                                       ELSE extra
               /\ Request(k).prompt = IF base # <<>> THEN base \o Copies(k - 1)
                                                       ELSE extra \o Copies(k - 2)
               /\ Request(k).task = Request(1).task
               /\ Request(k).question = Request(1).question)
    /\ FirstRequestUnmodified

\* a third attempt for a prompt given with surrounding whitespace
C34_Witness ==
    /\ Attempts = 3
    /\ Request(1).prompt = <<"sp", "a", "sp">>
    /\ Request(1).task = "inspect"
    /\ Request(3).prompt = <<"a", "nl", "nl", "EXTRA", "nl", "nl", "EXTRA">>

\* C38: a run that surfaces a failure has invoked the backend at least once,
\* and the failure is the outcome of its last attempt.
C38_FailureHasAttempt ==
    run_pc = "raised" =>
       /\ Attempts >= 1
       /\ Last(backend_log).kind \in {"timeout", "invalid", "error"}
       /\ run_out.message = Last(backend_log).message

\* ========================================================================
\* Properties of run_with_timeout (checked under SpecTimeout)
\* ========================================================================
\* C22: when the wrapped call has not completed at the deadline, the caller is
\* told of the timeout at the deadline: the caller is never still waiting after
\* the deadline, and whatever is delivered at or after the deadline is a
\* VLMTimeout delivered at the deadline itself.
C22_TimeoutAtDeadline ==
    /\ rt_pc = "waiting" => now <= vlm_timeout_seconds
    /\ \A i \in DOMAIN rt_out :
          rt_out[i].at >= vlm_timeout_seconds =>
             /\ rt_out[i].kind = "VLMTimeout"
             /\ rt_out[i].at = vlm_timeout_seconds

DocFinished == doc_pc \in {"returned", "raised"}

\* some piece of the warning w is exactly the text x
Mentions(w, x) == \E k \in 1..Len(w) : w[k] = x

AnalyzerWellTyped == \A k \in 1..Len(analyzer_log) : analyzer_log[k].kind # "return_none"

\* C5: for a batch of N pages on each of which the analyzer either returns a
\* page or raises, the pipeline returns a result with exactly N units, unit i
\* being the result for page i: an empty unit with a warning naming the
\* exception where the analyzer raised, the analyzer's own page elsewhere.
C5_FailureIsolation ==
    (DocFinished /\ AnalyzerWellTyped) =>
        /\ doc_pc = "returned"
        /\ Len(doc_out.value.pages) = n_pages
        /\ Len(analyzer_log) = n_pages
        /\ \A k \in 1..n_pages :
              LET unit == doc_out.value.pages[k]
                  call == analyzer_log[k]
              IN /\ call.index = k - 1
                 /\ call.kind = "return" => unit = call.value
                 /\ call.kind = "raise" =>
                       /\ unit.page_index = k - 1
                       /\ unit.fields = <<>>
                       /\ unit.tables = <<>>
                       /\ unit.page_confidence = NoConfidence
                       /\ \E j \in 1..Len(unit.warnings) : Mentions(unit.warnings[j], call.exc)

\* three pages, the analyzer raising on the middle one only
C5_Witness ==
    /\ doc_pc = "returned"
    /\ n_pages = 3
    /\ analyzer_log[1].kind = "return"
    /\ analyzer_log[2].kind = "raise"
    /\ analyzer_log[3].kind = "return"
    /\ doc_out.value.pages[1].page_confidence # NoConfidence
    /\ doc_out.value.pages[2].page_confidence = NoConfidence
    /\ doc_out.value.pages[3].page_confidence # NoConfidence

\* C7: run_document_pipeline raises nothing, whatever the analyzer returns or
\* raises on each page.
C7_PipelineNeverRaises == doc_pc # "raised"

Units == doc_out.value.pages

\* number of warnings of the units before unit k
RECURSIVE WarningsBefore(_)
WarningsBefore(k) == IF k <= 1 THEN 0 ELSE WarningsBefore(k - 1) + Len(Units[k - 1].warnings)

\* C14: the warning list of a returned batch is the concatenation, in page
\* order, of every unit's warnings in their own order, each prefixed with
\* "page[<index>]: " for the index of the unit it comes from: nothing is lost,
\* duplicated or attributed to another index.
C14_WarningsConcatenated ==
    doc_pc = "returned" =>
        /\ Len(doc_out.value.warnings) = WarningsBefore(Len(Units) + 1)
        /\ \A k \in 1..Len(Units) :
              \A j \in 1..Len(Units[k].warnings) :
                 doc_out.value.warnings[WarningsBefore(k) + j] =
                    <<"page[", ToString(k - 1), "]: ">> \o Units[k].warnings[j]

\* two warnings on page 0, an analyzer exception on page 1, one warning on page 2
C14_Witness ==
    /\ doc_pc = "returned"
    /\ n_pages = 3
    /\ Units[1].warnings = << <<"w2">>, <<"w1">> >>
    /\ analyzer_log[2].kind = "raise"
    /\ Units[3].warnings = << <<"w1">> >>
    /\ Len(doc_out.value.warnings) = 4
    /\ doc_out.value.warnings[1] = <<"page[", "0", "]: ", "w2">>
    /\ doc_out.value.warnings[4] = <<"page[", "2", "]: ", "w1">>

\* the units of the batch that carry a numeric score
Scored == {k \in 1..Len(Units) : ~Units[k].page_confidence.is_none
                                   /\ Units[k].page_confidence.has_score}

\* the units of the batch that carry a level
Levelled == {k \in 1..Len(Units) : ~Units[k].page_confidence.is_none
                                     /\ Units[k].page_confidence.level # "None"}

\* sum of the scores of the scored units among the first k units
RECURSIVE ScoreSum(_)
ScoreSum(k) ==
    IF k = 0 THEN Rat(0, 1)
    ELSE IF k \in Scored THEN RatAdd(ScoreSum(k - 1), Units[k].page_confidence.score)
                          ELSE ScoreSum(k - 1)

\* C15: when at least one unit of a returned batch has a score, the batch
\* confidence has no level and its score times the number of scored units
\* equals the sum of their scores; units without a score count for nothing.
C15_MeanOfPresentScores ==
    (doc_pc = "returned" /\ Scored # {}) =>
        LET c == doc_out.value.doc_confidence
            total == ScoreSum(Len(Units))
        IN /\ ~c.is_none
           /\ c.has_score
           /\ c.level = "None"
           /\ c.score.d # 0
           /\ c.score.n * Cardinality(Scored) * total.d = total.n * c.score.d

\* scores 0.5 and 0 around a failed page: the mean is 0.25, not 0.5 / 3
C15_Witness ==
    /\ doc_pc = "returned"
    /\ n_pages = 3
    /\ Scored = {1, 3}
    /\ analyzer_log[2].kind = "raise"
    /\ Units[1].page_confidence.score = Rat(1, 2)
    /\ Units[3].page_confidence.score = Rat(0, 1)
    /\ doc_out.value.doc_confidence.score.n * 4 = doc_out.value.doc_confidence.score.d

\* C16: when no unit of a returned batch has a score, the batch confidence is
\* absent if no unit has a level, and otherwise has no score and the worst
\* level present: low if any unit is low, else medium if any is medium, else
\* high.
C16_WorstLevel ==
    (doc_pc = "returned" /\ Scored = {}) =>
        LET c == doc_out.value.doc_confidence
            present == {Units[k].page_confidence.level : k \in Levelled}
        IN IF Levelled = {}
              THEN c = NoConfidence
              ELSE /\ ~c.is_none
                   /\ ~c.has_score
                   /\ c.level = (IF "low" \in present THEN "low"
                                  ELSE IF "medium" \in present THEN "medium" ELSE "high")

\* levels high, medium, high: the batch level is medium
C16_Witness ==
    /\ doc_pc = "returned"
    /\ n_pages = 3
    /\ Scored = {}
    /\ Units[1].page_confidence.level = "high"
    /\ Units[2].page_confidence.level = "medium"
    /\ Units[3].page_confidence.level = "high"
    /\ doc_out.value.doc_confidence.level = "medium"

\* C31: the pipeline invokes the analyzer once per page, in increasing index
\* order, never twice for a page, and a run that has ended has invoked it
\* exactly N times for N pages, whether the invocations returned or raised.
C31_OneInvocationPerPage ==
    /\ Len(analyzer_log) <= n_pages
    /\ \A k \in DOMAIN analyzer_log : analyzer_log[k].index = k - 1
    /\ doc_pc \in {"returned", "raised"} => Len(analyzer_log) = n_pages

\* ========================================================================
\* Properties of the document batch over the VLM analyzer (SpecBatch)
\* ========================================================================
\* the units collected so far, and how the backend behaved on unit k
BackendRaised(k) == client_log[k].kind = "raise"

BackendAnswered(k) == client_log[k].kind = "return" /\ client_log[k].meta.is_dict

AnalyzerCrashed(k) == client_log[k].kind = "return" /\ ~client_log[k].meta.is_dict

\* C21 (as stated): every unit of a returned result, the pipeline's exception
\* fallback included, has an engine_meta that names the backend that produced
\* it and carries the batch's mode.
C21_EngineMetaNamesBackend ==
    doc_pc = "returned" =>
       \A k \in DOMAIN Units :
          LET em == Units[k].engine_meta
          IN /\ "name" \in DOMAIN em
             /\ em["name"] # "unknown"
             /\ "mode" \in DOMAIN em
             /\ em["mode"] = doc_mode

\* C21 (amended): every unit has a name and the batch's mode; a unit the
\* analyzer produced (parsed or degraded) is named "vlm" and carries a model
\* (the backend's, else the configured one, else "default"), and the backend's
\* metadata never replaces name, model-of-record or mode; the pipeline's
\* exception fallback is named "unknown" and carries no model.
C21_EngineMetaNameAndMode ==
    doc_pc = "returned" =>
       \A k \in DOMAIN Units :
          LET em == Units[k].engine_meta
              mm == client_log[k].meta.m
          IN /\ {"name", "mode"} \subseteq DOMAIN em
             /\ em["mode"] = doc_mode
             /\ BackendRaised(k) =>
                   /\ DOMAIN em = {"name", "model", "mode"}
                   /\ em["name"] = "vlm"
                   /\ em["model"] = ModelOrDefault(analyzer_model_name)
             /\ BackendAnswered(k) =>
                   /\ em["name"] = "vlm"
                   /\ em["model"] = IF "model" \in DOMAIN mm
                                       THEN mm["model"]
                                       ELSE ModelOrDefault(analyzer_model_name)
                   /\ \A x \in DOMAIN mm \ {"name", "model", "mode"} : em[x] = mm[x]
             /\ AnalyzerCrashed(k) =>
                   /\ DOMAIN em = {"name", "mode"}
                   /\ em["name"] = "unknown"

\* a batch with a parsed page whose backend metadata carries its own name and
\* mode, a degraded page and a fallback page
C21_Witness ==
    /\ doc_pc = "returned"
    /\ Len(Units) = 3
    /\ BackendAnswered(1) /\ "name" \in DOMAIN client_log[1].meta.m
    /\ BackendRaised(2)
    /\ AnalyzerCrashed(3)

\* what a unit holds apart from its position
UnitContent(u) ==
    [fields |-> u.fields, tables |-> u.tables, page_confidence |-> u.page_confidence,
     warnings |-> u.warnings, engine_meta |-> u.engine_meta]

C27_BatchEventuallyReturns ==
    <>(/\ doc_pc \in {"returned", "raised", "rejected"}
       /\ doc_pc = "returned" => Len(Units) = n_pages)

TimedOut(k) == BackendRaised(k) /\ client_log[k].exc = "TimeoutError"

\* C28: a TimeoutError of the backend on one page gives a degraded unit whose
\* warning names TimeoutError; the pipeline does not raise, the returned
\* result has a unit for every page and the page's warning, and the response
\* is 200.
C28_PageTimeoutAbsorbed ==
    /\ \A k \in DOMAIN page_results :
          TimedOut(k) =>
             /\ page_results[k].fields = <<>>
             /\ page_results[k].tables = <<>>
             /\ page_results[k].page_confidence = NoConfidence
             /\ page_results[k].warnings =
                   << <<"VLM call failed: ", "TimeoutError", ": ", client_log[k].message>> >>
    /\ (\E k \in DOMAIN client_log : TimedOut(k)) =>
          /\ doc_pc \in {"loop", "returned", "blocked"}
          /\ response \in {NoResponse, JSONResponse(200, "")}
          /\ doc_pc = "returned" =>
                /\ Len(Units) = n_pages
                /\ \A k \in DOMAIN Units :
                      TimedOut(k) =>
                         \E w \in DOMAIN doc_warnings :
                            doc_warnings[w] =
                               PagePrefix(k - 1, Units[k].warnings[1])

\* a page timed out, a later page was parsed, and the request got 200
C28_Witness ==
    /\ response = JSONResponse(200, "")
    /\ Len(Units) = 3
    /\ TimedOut(2)
    /\ BackendAnswered(3)
    /\ Units[3].fields # <<>>

\* ========================================================================
\* Properties of _confidence_to_number (checked under SpecRoutes)
\* ========================================================================
\* C17: _confidence_to_number returns the score itself when a score is present,
\* whatever the level; otherwise 0.85, 0.60 or 0.30 for level high, medium or
\* low; and 0.0 when the confidence is absent or has neither score nor level.
C17_ConfidenceToNumber ==
    cn_pc = "done" =>
        /\ (~cn_in.is_none /\ cn_in.has_score) => cn_out = cn_in.score
        /\ (~cn_in.is_none /\ ~cn_in.has_score /\ cn_in.level = "high") =>
              cn_out = Rat(85, 100)
        /\ (~cn_in.is_none /\ ~cn_in.has_score /\ cn_in.level = "medium") =>
              cn_out = Rat(60, 100)
        /\ (~cn_in.is_none /\ ~cn_in.has_score /\ cn_in.level = "low") =>
              cn_out = Rat(30, 100)
        /\ (cn_in.is_none \/ (~cn_in.has_score /\ cn_in.level = "None")) =>
              cn_out = Rat(0, 1)

\* a score of 0 with level high yields 0, not 0.85
C17_Witness ==
    /\ cn_pc = "done"
    /\ cn_in = ConfidenceValue(TRUE, Rat(0, 20), "high")
    /\ cn_out = Rat(0, 20)

\* ========================================================================
\* Properties of VLMDocumentAnalyzer.analyze_page (checked under SpecAnalyzer)
\* ========================================================================
\* C6: analyze_page never propagates an exception: for every behaviour of the
\* client it returns a PageExtraction for the requested page_index, which is
\* empty and warns with the exception's type name when the client raised.
C6_AnalyzePageNeverRaises ==
    ap_pc = "done" =>
        /\ ap_out.kind = "return"
        /\ ap_out.value.page_index = ap_in.page_index
        /\ ap_in.client.kind = "raise" =>
              /\ ap_out.value.fields = <<>>
              /\ ap_out.value.tables = <<>>
              /\ ap_out.value.page_confidence = NoConfidence
              /\ \E j \in 1..Len(ap_out.value.warnings) :
                    Mentions(ap_out.value.warnings[j], ap_in.client.exc)

\* the client returned a text with metadata that is a dict
ClientAnswered == ap_pc = "done" /\ ap_in.client.kind = "return" /\ ap_in.client.meta.is_dict

ModelText == ap_in.client.text

\* the three parse failures of the document-extraction shape
OutputEmpty == ModelText.kind \in {"empty", "nonstr"}

OutputNotJson == ModelText.kind \in {"garbage", "prose"}

OutputNotObject == ModelText.kind = "json" /\ ModelText.json.t # "obj"

\* C18: each parse failure (empty or non-string output, text that is not valid
\* JSON, JSON that is not an object) yields a unit with empty fields, empty
\* tables, absent confidence and exactly one warning, which is a different
\* text for each of the three failures.
C18_ParseFailures ==
    (ClientAnswered /\ (OutputEmpty \/ OutputNotJson \/ OutputNotObject)) =>
        /\ ap_out.kind = "return"
        /\ ap_out.value.page_index = ap_in.page_index
        /\ ap_out.value.fields = <<>>
        /\ ap_out.value.tables = <<>>
        /\ ap_out.value.page_confidence = NoConfidence
        /\ Len(ap_out.value.warnings) = 1
        /\ OutputEmpty <=> ap_out.value.warnings[1] = <<"Empty model output.">>
        /\ OutputNotJson <=>
              ap_out.value.warnings[1] =
                 <<"Model output is not valid JSON; using empty extraction.">>
        /\ OutputNotObject <=>
              ap_out.value.warnings[1] =
                 <<"Model output JSON is not an object; using empty extraction.">>

\* a JSON list holding a well-formed field is still no object
C18_Witness ==
    /\ ClientAnswered
    /\ ModelText = Text("json", JList(<<GoodField>>))
    /\ ap_out.kind = "return"
    /\ ap_out.value.fields = <<>>
    /\ Len(ap_out.value.warnings) = 1

OutputIsObject == ModelText.kind = "json" /\ ModelText.json.t = "obj"

Present(key) == key \in DOMAIN ModelText.json.m

ParseWarnings ==
    {<<"Empty model output.">>,
     <<"Model output is not valid JSON; using empty extraction.">>,
     <<"Model output JSON is not an object; using empty extraction.">>}

\* C19: for a JSON object lacking any subset of the keys fields, tables,
\* page_confidence, warnings, analyze_page returns a unit without any parse
\* warning, in which each missing key is empty or absent and each present key
\* keeps its content: a well-formed field, confidence and warnings list come
\* out as given, whichever other keys are missing.
C19_MissingKeysTolerated ==
    (ClientAnswered /\ OutputIsObject) =>
        /\ ap_out.kind = "return"
        /\ \A k \in 1..Len(ap_out.value.warnings) : ap_out.value.warnings[k] \notin ParseWarnings
        /\ ~Present("fields") => ap_out.value.fields = <<>>
        /\ ~Present("tables") => ap_out.value.tables = <<>>
        /\ ~Present("page_confidence") => ap_out.value.page_confidence = NoConfidence
        /\ ~Present("warnings") => ap_out.value.warnings = <<>>
        /\ (Present("fields") /\ ModelText.json.m["fields"] = JList(<<GoodField>>)) =>
              ap_out.value.fields =
                 <<ExtractedField("total", SomeStr("100"),
                                  ConfidenceValue(TRUE, Rat(1, 2), "high"))>>
        /\ (Present("page_confidence") /\ ModelText.json.m["page_confidence"] = GoodConf) =>
              ap_out.value.page_confidence = ConfidenceValue(TRUE, Rat(1, 2), "high")
        /\ (Present("warnings") /\ ModelText.json.m["warnings"] = JList(<<JStr("ok")>>)) =>
              ap_out.value.warnings = << <<"ok">> >>
        /\ (Present("tables") /\ ModelText.json.m["tables"].t = "list") =>
              Len(ap_out.value.tables) = 1

\* the object {"warnings": ["ok"]}
C19_Witness ==
    /\ ClientAnswered
    /\ OutputIsObject
    /\ DOMAIN ModelText.json.m = {"warnings"}
    /\ ModelText.json.m["warnings"] = JList(<<JStr("ok")>>)
    /\ ap_out.kind = "return"
    /\ ap_out.value.fields = <<>>
    /\ ap_out.value.tables = <<>>
    /\ ap_out.value.page_confidence = NoConfidence
    /\ ap_out.value.warnings = << <<"ok">> >>

\* the list the backend gave under a top-level key, empty when it gave no list
RawItems(key) ==
    IF OutputIsObject /\ Get(ModelText.json, key).t = "list"
       THEN Get(ModelText.json, key).items ELSE <<>>

IsObject(v) == v.t = "obj"

\* a field item that is kept: an object with a name
UsableField(v) == v.t = "obj" /\ Get(v, "name").t = "str" /\ Get(v, "name").s # ""

\* a cell item that is kept: an object whose text is not null
UsableCell(v) == v.t = "obj" /\ Get(v, "text").t # "null"

RawCells(table) == IF Get(table, "cells").t = "list" THEN Get(table, "cells").items ELSE <<>>

\* C29: the fields, tables and cells of a unit are the backend's items in the
\* backend's order, without the items that are no objects, the fields lacking
\* a name and the cells whose text is null: every usable item is kept, at its
\* place among the usable ones.
C29_ItemTolerantInOrder ==
    (ClientAnswered /\ ap_out.kind = "return") =>
        LET fields_in == SelectSeq(RawItems("fields"), UsableField)
            tables_in == SelectSeq(RawItems("tables"), IsObject)
        IN /\ Len(ap_out.value.fields) = Len(fields_in)
           /\ \A k \in 1..Len(fields_in) :
                 /\ ap_out.value.fields[k].name = Get(fields_in[k], "name").s
                 /\ ap_out.value.fields[k].value.is_none = (Get(fields_in[k], "value").t = "null")
           /\ Len(ap_out.value.tables) = Len(tables_in)
           /\ \A k \in 1..Len(tables_in) :
                 LET cells_in == SelectSeq(RawCells(tables_in[k]), UsableCell)
                     cells_out == ap_out.value.tables[k].cells
                 IN /\ Len(cells_out) = Len(cells_in)
                    /\ \A j \in 1..Len(cells_in) :
                          /\ Get(cells_in[j], "text").t = "str" =>
                                cells_out[j].text = Get(cells_in[j], "text").s
                          /\ Get(cells_in[j], "text").t = "num" =>
                                cells_out[j].text = ToString(Get(cells_in[j], "text").n.n)

\* four field items of which the second and the fourth are usable, and four
\* cells of which the first and the last are usable
C29_Witness ==
    /\ ClientAnswered
    /\ ap_out.kind = "return"
    /\ Len(RawItems("fields")) = 4
    /\ Len(ap_out.value.fields) = 2
    /\ ap_out.value.fields[1].name = "total"
    /\ ap_out.value.fields[2].name = "date"
    /\ Len(RawItems("tables")) = 1
    /\ Len(RawCells(RawItems("tables")[1])) = 4
    /\ Len(ap_out.value.tables[1].cells) = 2
    /\ ap_out.value.tables[1].cells[1].text = "Item"
    /\ ap_out.value.tables[1].cells[2].text = "Total"

\* C30: every TableCell of a unit has row >= 0 and col >= 0 and every
\* ExtractedTable has n_rows >= 0 and n_cols >= 0, whatever the backend gave
\* for them.
C30_TableIndicesNonNegative ==
    ap_out.kind = "return" =>
        \A k \in 1..Len(ap_out.value.tables) :
           /\ ap_out.value.tables[k].n_rows >= 0
           /\ ap_out.value.tables[k].n_cols >= 0
           /\ \A j \in 1..Len(ap_out.value.tables[k].cells) :
                 /\ ap_out.value.tables[k].cells[j].row >= 0
                 /\ ap_out.value.tables[k].cells[j].col >= 0

\* C39: in the unit analyze_page builds from a backend answer, name is "vlm"
\* and mode is the requested mode whatever the backend's metadata holds; the
\* metadata only adds the keys that name, model and mode do not already set,
\* with their own values, and the model of record is never lost.
C39_NameAndModeFixed ==
    ClientAnswered =>
       LET em == ap_out.value.engine_meta
           mm == ap_in.client.meta.m
       IN /\ ap_out.kind = "return"
          /\ DOMAIN em = {"name", "model", "mode"} \cup DOMAIN mm
          /\ em["name"] = "vlm"
          /\ em["mode"] = ap_in.mode
          /\ em["model"] = IF "model" \in DOMAIN mm THEN mm["model"]
                                                      ELSE ModelOrDefault(ap_in.model_name)
          /\ \A k \in DOMAIN mm \ {"name", "model", "mode"} : em[k] = mm[k]

\* metadata that carries its own name and mode, and a key of its own
C39_Witness ==
    /\ ClientAnswered
    /\ ap_in.mode = "full"
    /\ {"name", "mode", "tokens"} \subseteq DOMAIN ap_in.client.meta.m
    /\ ap_in.client.meta.m["name"] = "spoofed"
    /\ ap_out.value.engine_meta["tokens"] = "17"

\* ========================================================================
\* Properties of Confidence values (checked under SpecDocument)
\* ========================================================================
\* the score of c is absent or within [0, 1]
ScoreInRange(c) ==
    (~c.is_none /\ c.has_score) =>
        /\ c.score.d > 0
        /\ 0 <= c.score.n
        /\ c.score.n <= c.score.d

\* every Confidence of a unit: its fields', tables', cells' and its own
UnitInRange(u) ==
    /\ ScoreInRange(u.page_confidence)
    /\ \A i \in 1..Len(u.fields) : ScoreInRange(u.fields[i].confidence)
    /\ \A i \in 1..Len(u.tables) :
          /\ ScoreInRange(u.tables[i].confidence)
          /\ \A j \in 1..Len(u.tables[i].cells) : ScoreInRange(u.tables[i].cells[j].confidence)

RawPageConfidence == Get(ModelText.json, "page_confidence")

\* the backend's page_confidence is an object whose score float() rejects or
\* converts to a number outside [0, 1]
ScoreUnusable ==
    /\ OutputIsObject
    /\ RawPageConfidence.t = "obj"
    /\ Get(RawPageConfidence, "score").t # "null"
    /\ \/ Get(RawPageConfidence, "score").t # "num"
       \/ Get(RawPageConfidence, "score").n.n < 0
       \/ Get(RawPageConfidence, "score").n.n > Get(RawPageConfidence, "score").n.d

\* C20: every Confidence in a unit result (field, cell, table, page) and in a
\* batch result (its units and the aggregated document confidence) has its
\* score absent or within [0, 1]; a backend page_confidence whose score is
\* outside [0, 1] or not numeric comes out without a score and with the level
\* supplied with it when that level is low, medium or high.
C20_ScoresInRange ==
    /\ ap_out.kind = "return" => UnitInRange(ap_out.value)
    /\ \A k \in 1..Len(page_results) : UnitInRange(page_results[k])
    /\ doc_out.kind = "return" =>
          /\ ScoreInRange(doc_out.value.doc_confidence)
          /\ \A k \in 1..Len(doc_out.value.pages) : UnitInRange(doc_out.value.pages[k])
    /\ (ClientAnswered /\ ScoreUnusable) =>
          LET level == Get(RawPageConfidence, "level")
              c == ap_out.value.page_confidence
          IN /\ ap_out.kind = "return"
             /\ ~c.is_none
             /\ ~c.has_score
             /\ c.level = (IF level.t = "str" /\ level.s \in {"low", "medium", "high"}
                              THEN level.s ELSE "None")

\* a page_confidence of score 1.5 and level low comes out as level low alone
C20_Witness ==
    /\ ClientAnswered
    /\ ScoreUnusable
    /\ Get(RawPageConfidence, "score") = JNum(3, 2)
    /\ Get(RawPageConfidence, "level") = JStr("low")
    /\ ap_out.kind = "return"
    /\ ap_out.value.page_confidence = ConfidenceValue(FALSE, Rat(0, 1), "low")

\* ========================================================================
\* Properties of generate_grounded_explanation (checked under SpecExplainer)
\* ========================================================================
\* C8: generate_grounded_explanation raises nothing, whatever the facts and
\* whatever the text backend raises or returns.
C8_ExplanationNeverRaises == ge_out.kind # "raise"

\* the backend answered with exactly one JSON object holding key set ks
ResponseIsObject == ge_in.llm.kind = "return" /\ ge_in.llm.raw_text.kind = "json"
                       /\ ge_in.llm.raw_text.json.t = "obj"

IsFallback ==
    /\ ge_out.kind = "return"
    /\ ge_out.value.t = "obj"
    /\ DOMAIN ge_out.value.m = _REQUIRED_KEYS
    /\ ge_out.value.m["explanation"] = JStr(FallbackExplanationText)
    /\ ge_out.value.m["recommendation"] = JStr(FallbackRecommendationText)

\* C9: every returned value has exactly the five required keys, a risk_level
\* among low/medium/high and lists for assumptions and limitations; a response
\* holding the five keys plus an extra one is replaced by the fallback.
C9_ExactFiveKeys ==
    /\ ge_out.kind = "return" =>
          /\ ge_out.value.t = "obj"
          /\ DOMAIN ge_out.value.m = _REQUIRED_KEYS
          /\ ge_out.value.m["risk_level"].t = "str"
          /\ ge_out.value.m["risk_level"].s \in Levels
          /\ ge_out.value.m["assumptions"].t = "list"
          /\ ge_out.value.m["limitations"].t = "list"
    /\ (ge_pc = "done" /\ ResponseIsObject
           /\ _REQUIRED_KEYS \subseteq DOMAIN ge_in.llm.raw_text.json.m
           /\ DOMAIN ge_in.llm.raw_text.json.m # _REQUIRED_KEYS) =>
          /\ IsFallback
          /\ ge_out.value # ge_in.llm.raw_text.json

\* a response that is valid but for one extra key
C9_Witness ==
    /\ ge_pc = "done"
    /\ ResponseIsObject
    /\ DOMAIN ge_in.llm.raw_text.json.m = _REQUIRED_KEYS \cup {"extra_field"}
    /\ ge_in.llm.raw_text.json.m["risk_level"] = JStr("low")
    /\ ge_in.llm.raw_text.json.m["assumptions"].t = "list"
    /\ ge_in.llm.raw_text.json.m["limitations"].t = "list"
    /\ IsFallback

\* the facts carry at least one warning
FactsHaveWarnings ==
    LET w == Get(ge_in.facts, "warnings") IN w.t = "list" /\ Len(w.items) >= 1

\* the call returned something other than the backend's own object
FailurePath == ge_pc = "done" /\ ge_out.kind = "return" /\ ge_out.path # "success"

\* C10: on every failure path the returned risk_level is high when the facts
\* carry at least one warning and medium otherwise, never low.
C10_FallbackRisk ==
    /\ FailurePath =>
          /\ IsFallback
          /\ ge_out.value.m["risk_level"] =
                (IF FactsHaveWarnings THEN JStr("high") ELSE JStr("medium"))
    /\ (ge_pc = "done" /\ ge_out.kind = "return" /\ ge_out.path = "success") =>
          /\ ResponseIsObject
          /\ ge_out.value = ge_in.llm.raw_text.json

\* a response rejected for its risk_level, with warnings in the facts
C10_Witness ==
    /\ FailurePath
    /\ ResponseIsObject
    /\ DOMAIN ge_in.llm.raw_text.json.m = _REQUIRED_KEYS
    /\ ge_in.llm.raw_text.json.m["risk_level"] = JStr("critical")
    /\ FactsHaveWarnings
    /\ ge_out.value.m["risk_level"] = JStr("high")

\* the reason the code gives for the failure that occurred on this input
FailureReason ==
    IF ge_in.llm.kind = "raise" THEN "LLM error: " \o ge_in.llm.exc
    ELSE IF ~(ge_in.llm.raw_text.kind = "json" /\ ge_in.llm.raw_text.json.t # "null")
            THEN "Invalid JSON returned by LLM"
            ELSE "LLM JSON missing required keys"

Limitations == ge_out.value.m["limitations"].items

Contains(items, x) == \E k \in 1..Len(items) : items[k] = JStr(x)

\* C11: on every failure path the fallback has empty assumptions, and its
\* limitations hold the reason of the failure that occurred (backend error with
\* the exception's type name, invalid JSON, or schema violation) and no reason of
\* another failure, and hold the warnings note exactly when the facts carry at
\* least one warning.
C11_FallbackLimitations ==
    FailurePath =>
        /\ ge_out.value.m["assumptions"] = JList(<<>>)
        /\ Contains(Limitations, FailureReason)
        /\ \A r \in {"Invalid JSON returned by LLM", "LLM JSON missing required keys"}
                       \cup {"LLM error: " \o e : e \in LLMExcTypes} :
              Contains(Limitations, r) => r = FailureReason
        /\ Contains(Limitations, WarningsNote) <=> FactsHaveWarnings

\* a schema violation (limitations not a list) with two warnings in the facts
C11_Witness ==
    /\ FailurePath
    /\ ResponseIsObject
    /\ DOMAIN ge_in.llm.raw_text.json.m = _REQUIRED_KEYS
    /\ ge_in.llm.raw_text.json.m["risk_level"] = JStr("low")
    /\ ge_in.llm.raw_text.json.m["limitations"].t # "list"
    /\ Len(Get(ge_in.facts, "warnings").items) = 2
    /\ Limitations = <<JStr(WarningsNote), JStr("LLM JSON missing required keys")>>

\* C12: a call of generate_grounded_explanation that has ended has invoked the
\* backend exactly once, with temperature 0 and the prompt built from its own
\* arguments, whatever the backend raised or returned; before the call the
\* backend has not been invoked.
C12_BackendCalledOnce ==
    /\ ge_pc = "call" => llm_calls = <<>>
    /\ ge_pc = "done" =>
          /\ Len(llm_calls) = 1
          /\ llm_calls[1].temperature = 0
          /\ llm_calls[1].prompt = _build_prompt(ge_in.task_type, ge_in.mode, ge_in.facts)

\* the backend timed out and was still called only once
C12_Witness ==
    /\ ge_pc = "done"
    /\ ge_in.llm = LLMRaises("LLMTimeoutError")
    /\ IsFallback
    /\ Len(llm_calls) = 1

\* the backend answered with prose around a JSON object that has exactly the
\* five required keys and passes the schema
ProseAroundValidObject ==
    /\ ge_in.llm.kind = "return"
    /\ ge_in.llm.raw_text.kind = "prose"
    /\ _validate_schema(ge_in.llm.raw_text.json).ok

\* C13 as stated: prose surrounding one valid five-key JSON object is accepted,
\* the object inside the text being returned as the explanation.
C13_ProseObjectAccepted ==
    (ge_pc = "done" /\ ProseAroundValidObject) =>
        /\ ge_out.kind = "return"
        /\ ge_out.value = ge_in.llm.raw_text.json

\* C13 amended: prose surrounding a valid five-key JSON object is not accepted:
\* the call returns the fallback with the reason "Invalid JSON returned by LLM";
\* the object is returned as the explanation when the response text is that
\* object and nothing else.
C13_ProseObjectRejected ==
    /\ (ge_pc = "done" /\ ProseAroundValidObject) =>
          /\ IsFallback
          /\ ge_out.value # ge_in.llm.raw_text.json
          /\ Contains(Limitations, "Invalid JSON returned by LLM")
    /\ (ge_pc = "done" /\ ResponseIsObject /\ _validate_schema(ge_in.llm.raw_text.json).ok) =>
          /\ ge_out.kind = "return"
          /\ ge_out.value = ge_in.llm.raw_text.json

\* prose around a valid object, answered with the fallback
C13_Witness ==
    /\ ge_pc = "done"
    /\ ProseAroundValidObject
    /\ ge_in.llm.raw_text.json.m["risk_level"] = JStr("medium")
    /\ IsFallback

\* ========================================================================
\* Properties of RetryingLLMClient.generate (checked under SpecRetry)
\* ========================================================================
InnerCalls == Len(inner_log)

RetryFinished == rl_pc \in {"returned", "raised"}

\* C35: the inner client is invoked at most max_attempts times; a successful
\* attempt is the last one, and the wrapper returns its text with attempts
\* equal to its 1-based index; the wrapper has slept once after each failed
\* attempt that another attempt follows (attempt k < max_attempts), in order,
\* and never after the attempt numbered max_attempts.
C35_BoundedAttemptsAndBackoff ==
    /\ InnerCalls <= (IF max_attempts > 0 THEN max_attempts ELSE 0)
    /\ \A i \in DOMAIN inner_log :
          inner_log[i].kind = "ok" =>
             /\ i = InnerCalls
             /\ rl_pc = "returned"
             /\ rl_out = LLMResult(inner_log[i].value, i)
    /\ rl_pc = "returned" => (InnerCalls >= 1 /\ Last(inner_log).kind = "ok")
    /\ \A k \in DOMAIN sleeps :
          /\ sleeps[k] = k
          /\ k < max_attempts
          /\ k <= InnerCalls
          /\ inner_log[k].kind # "ok"
    /\ Len(sleeps) = Cardinality({i \in DOMAIN inner_log :
                                    inner_log[i].kind # "ok" /\ i < max_attempts})

\* a result on the third attempt, after two waits
C35_Witness ==
    /\ rl_pc = "returned"
    /\ rl_out.attempts = 3
    /\ sleeps = <<1, 2>>

\* C36 (as stated): a timeout of the inner client is not retried: the attempt
\* that raised LLMTimeoutError is the last invocation and the run has raised
\* that timeout.
C36_TimeoutNotRetried ==
    \A i \in DOMAIN inner_log :
       inner_log[i].kind = "timeout" =>
          /\ i = InnerCalls
          /\ rl_pc = "raised"
          /\ rl_out.exc = "LLMTimeoutError"

\* C36 (amended): a timeout of the inner client is retried like a downstream
\* failure: after a timeout on an attempt before the last, the wrapper waits
\* and invokes the inner client again; the timeout is surfaced exactly when
\* the attempt numbered max_attempts raised it, with that attempt's message.
C36_TimeoutRetried ==
    /\ \A i \in DOMAIN inner_log :
          (inner_log[i].kind = "timeout" /\ i < max_attempts) =>
             /\ Len(sleeps) >= i
             /\ (rl_pc = "loop" => rl_attempt > i)
             /\ (RetryFinished => InnerCalls > i)
    /\ (rl_pc = "raised" /\ rl_out.exc = "LLMTimeoutError") <=>
          (/\ rl_pc = "raised"
           /\ InnerCalls >= 1
           /\ InnerCalls = max_attempts
           /\ Last(inner_log).kind = "timeout")
    /\ (rl_pc = "raised" /\ rl_out.exc = "LLMTimeoutError") =>
          rl_out.message = <<Last(inner_log).value>>

\* a timeout on the first attempt and a result on the second
C36_Witness ==
    /\ rl_pc = "returned"
    /\ inner_log[1].kind = "timeout"
    /\ rl_out.attempts = 2

\* C37: for every max_attempts, a finished call of generate has returned a
\* result or raised LLMTimeoutError or LLMDownstreamError, nothing else.
C37_OnlyLLMErrors ==
    RetryFinished =>
       \/ rl_out.kind = "return"
       \/ (rl_out.kind = "raise" /\ rl_out.exc \in {"LLMTimeoutError", "LLMDownstreamError"})

\* ========================================================================
\* Properties of _aggregate_fields (checked under SpecFields)
\* ========================================================================
\* the fields that are not skipped, in page order and field order
Candidates == SelectSeq(FieldsInOrder(af_in), LAMBDA f : ~Skipped(f))

Number(f) == _confidence_to_number(f.confidence)

RatLess(a, b) == ~RatLeq(b, a)

\* C40: the result has an entry exactly for the names that occur with a value;
\* the entry of a name holds the value and the confidence number of the
\* occurrence whose number is highest, the earliest one among equals; a field
\* without a value neither creates nor replaces an entry.
C40_HighestConfidenceEarliestWins ==
    af_pc = "done" =>
       LET C == Candidates
       IN /\ DOMAIN af_out = {C[i].name : i \in DOMAIN C}
          /\ \A n \in DOMAIN af_out :
                \E i \in DOMAIN C :
                   /\ C[i].name = n
                   /\ af_out[n] = [value |-> C[i].value.s, confidence |-> Number(C[i])]
                   /\ \A j \in DOMAIN C :
                         C[j].name = n =>
                            /\ RatLeq(Number(C[j]), Number(C[i]))
                            /\ (j < i => RatLess(Number(C[j]), Number(C[i])))

\* the same name with 0.5, then 0.85 by level, then 0.85 by score on the next
\* page together with a valueless field of confidence 1
C40_Witness ==
    /\ af_pc = "done"
    /\ Len(af_in) = 2
    /\ Len(af_in[1].fields) = 2
    /\ af_in[1].fields[1].value = SomeStr("100")
    /\ af_in[1].fields[2].value = SomeStr("200")
    /\ Len(af_in[2].fields) = 2
    /\ af_in[2].fields[1].value = SomeStr("300")
    /\ af_in[2].fields[2].value = NoneStr
    /\ af_out["total"].value = "200"

====
